---- MODULE Spec2Model ----
(***************************************************************************)
(* google/safearchive: the lexical path sanitizer (POSIX and Windows       *)
(* variants), the filtering tar reader and the filtering zip reader.       *)
(*                                                                         *)
(* A Go string is modelled as a sequence of one-byte tokens: "a", "/",     *)
(* "\\", ".", ...  The two bytes of the UTF-8 encodings of the superscript *)
(* digits are the tokens "xC2" and "xB9" / "xB2" / "xB3".                  *)
(***************************************************************************)
EXTENDS Integers, Sequences, FiniteSets, TLC

VARIABLES
  platform,   \* the build target: "posix" or "windows"
  sIn,        \* sanitizer run: the input string
  sStage,     \* sanitizer run: "idle", "input", "sanitized", "resanitized", "joined"
  sOut,       \* sanitizer run: SanitizePath(sIn)
  sTwice,     \* sanitizer run: SanitizePath(sOut)
  sBase,      \* sanitizer run: the base directory the output is joined to
  sJoined,    \* sanitizer run: filepath.Join(sBase, sOut)
  live,       \* the tar readers that were constructed
  host,       \* host[r]: the archive behind tar reader r (headers and how it ends)
  tr,         \* tr[r]: the tar Reader r (unsafeReader position, securityMode, symlinks)
  log,        \* log[r]: one record per host header consumed by reader r, in order
  ret,        \* ret[r]: what the last Next of reader r returned
  sets,       \* sets[r]: SetSecurityMode calls made on reader r
  rd,         \* rd[r]: the host entry whose bytes reader r's Reads since its last Next delivered (0: none)
  zipArchive, \* the entries of the zip archive as the host decoder listed them
  zr,         \* the zip ReadCloser (originalFiles, File, securityMode, closed)
  lastOp      \* the last call made: [op, r, arg]

vars == <<platform, sIn, sStage, sOut, sTwice, sBase, sJoined,
          live, host, tr, log, ret, sets, rd, zipArchive, zr, lastOp>>

sanVars == <<sIn, sStage, sOut, sTwice, sBase, sJoined>>

tarVars == <<live, host, tr, log, ret, sets, rd>>

zipVars == <<zipArchive, zr>>

\* ------------------------------------------------------------------------
\* Bounds of the model
\* ------------------------------------------------------------------------

\* longest input string given to the sanitizer
MaxLen == 5
\* longest path over the separator bytes of the Windows replacer
MaxSepLen == 3

\* most headers in a tar archive
MaxEntries == 2

\* most SetSecurityMode calls on one tar reader
MaxModeSets == 1

\* most headers in each archive when two tar readers run side by side
MaxPairEntries == 2

\* most entries in a zip archive
MaxZipEntries == 2

\* ------------------------------------------------------------------------
\* Byte-string helpers (Go package strings)
\* ------------------------------------------------------------------------

winPathSeparator == "\\"

nixPathSeparator == "/"

\* os.PathSeparator of the build target
PathSeparator(os) == IF os = "windows" THEN winPathSeparator ELSE nixPathSeparator

\* os.IsPathSeparator of the build target
IsPathSeparator(os, c) == IF os = "windows" THEN c \in {"\\", "/"} ELSE c = "/"

\* s[lo:] in Go, lo counted from 0
Drop(s, lo) == SubSeq(s, lo + 1, Len(s))

\* s[:hi] in Go
Take(s, hi) == SubSeq(s, 1, hi)

\* strings.NewReplacer(old1, new, old2, new, ...).Replace for one-byte olds
ReplaceBytes(s, olds, new) == [i \in 1..Len(s) |-> IF s[i] \in olds THEN new ELSE s[i]]

\* strings.TrimPrefix(s, p) for a one-byte p
TrimPrefix(s, p) == IF Len(s) > 0 /\ s[1] = p THEN Drop(s, 1) ELSE s

\* strings.TrimSuffix(s, p) for a one-byte p
TrimSuffix(s, p) == IF Len(s) > 0 /\ s[Len(s)] = p THEN Take(s, Len(s) - 1) ELSE s

RECURSIVE TrimLeft(_, _)
\* strings.TrimLeft(s, cutset) for a one-byte cutset
TrimLeft(s, c) == IF Len(s) > 0 /\ s[1] = c THEN TrimLeft(Drop(s, 1), c) ELSE s

\* index (from 1) of the first byte of s that is in set, 0 when there is none
IndexAny(s, set) ==
  IF \E i \in 1..Len(s) : s[i] \in set
  THEN CHOOSE i \in 1..Len(s) : s[i] \in set /\ \A j \in 1..(i - 1) : s[j] \notin set
  ELSE 0

\* strings.Cut(s, sep) for a one-byte sep: <<before, after, found>>
Cut(s, sep) ==
  LET i == IndexAny(s, {sep})
  IN  IF i = 0 THEN <<s, <<>>, FALSE>> ELSE <<Take(s, i - 1), Drop(s, i), TRUE>>

RECURSIVE Split(_, _)
\* strings.Split(s, sep) for a one-byte sep; Split("", sep) is [""]
Split(s, sep) ==
  LET c == Cut(s, sep)
  IN  IF c[3] THEN <<c[1]>> \o Split(c[2], sep) ELSE <<s>>

RECURSIVE Join(_, _)
\* strings.Join(elems, sep)
Join(elems, sep) ==
  IF Len(elems) = 0 THEN <<>>
  ELSE IF Len(elems) = 1 THEN elems[1]
  ELSE elems[1] \o <<sep>> \o Join(Tail(elems), sep)

LowerOf == [c \in {"A", "B", "C", "I", "L", "M", "N", "O", "P", "R", "T", "U", "X"} |->
              CASE c = "A" -> "a" [] c = "B" -> "b" [] c = "C" -> "c"
                [] c = "I" -> "i" [] c = "L" -> "l" [] c = "M" -> "m"
                [] c = "N" -> "n" [] c = "O" -> "o" [] c = "P" -> "p"
                [] c = "R" -> "r" [] c = "T" -> "t" [] c = "U" -> "u"
                [] c = "X" -> "x"]

ToLowerByte(c) == IF c \in DOMAIN LowerOf THEN LowerOf[c] ELSE c

ToUpperByte(c) ==
  IF \E u \in DOMAIN LowerOf : LowerOf[u] = c
  THEN CHOOSE u \in DOMAIN LowerOf : LowerOf[u] = c
  ELSE c

\* strings.ToLower
ToLower(s) == [i \in 1..Len(s) |-> ToLowerByte(s[i])]

\* strings.ToUpper
ToUpper(s) == [i \in 1..Len(s) |-> ToUpperByte(s[i])]

\* strings.EqualFold
EqualFold(s, t) == ToUpper(s) = ToUpper(t)

\* the white space strings.TrimSpace removes (within the model's alphabet)
IsSpace(c) == c \in {" ", "\t"}

\* strings.TrimSpace(s) == ""
IsBlank(s) == \A i \in 1..Len(s) : IsSpace(s[i])

\* ------------------------------------------------------------------------
\* path/filepath.Clean and Join of the Go standard library, as the
\* sanitizer calls them
\* ------------------------------------------------------------------------

\* filepath.FromSlash
FromSlash(os, s) == IF os = "windows" THEN ReplaceBytes(s, {"/"}, "\\") ELSE s

\* cutPath of path_windows.go: <<before, after, found>> at the first separator
cutPath(path) ==
  LET i == IndexAny(path, {"\\", "/"})
  IN  IF i = 0 THEN <<path, <<>>, FALSE>> ELSE <<Take(path, i - 1), Drop(path, i), TRUE>>

\* pathHasPrefixFold of path_windows.go
pathHasPrefixFold(s, prefix) ==
  /\ Len(s) >= Len(prefix)
  /\ \A i \in 1..Len(prefix) :
       IF prefix[i] \in {"\\", "/"}
       THEN s[i] \in {"\\", "/"}
       ELSE ToUpperByte(prefix[i]) = ToUpperByte(s[i])
  /\ (Len(s) > Len(prefix) => s[Len(prefix) + 1] \in {"\\", "/"})

\* uncLen of path_windows.go: the end of the \\host\share volume
uncLen(path, prefixLen) ==
  LET seps == {i \in (prefixLen + 1)..Len(path) : path[i] \in {"\\", "/"}}
      second == {i \in seps : Cardinality({j \in seps : j < i}) = 1}
  IN  IF second = {} THEN Len(path) ELSE (CHOOSE i \in second : TRUE) - 1

\* volumeNameLen of path_windows.go; always 0 on the other targets
volumeNameLen(os, path) ==
  IF os # "windows" THEN 0
  ELSE IF Len(path) >= 2 /\ path[2] = ":" THEN 2
  ELSE IF Len(path) = 0 \/ path[1] \notin {"\\", "/"} THEN 0
  ELSE IF pathHasPrefixFold(path, <<"\\", "\\", ".", "\\", "U", "N", "C">>)
       THEN uncLen(path, 8)
  ELSE IF \/ pathHasPrefixFold(path, <<"\\", "\\", ".">>)
          \/ pathHasPrefixFold(path, <<"\\", "\\", "?">>)
          \/ pathHasPrefixFold(path, <<"\\", "?", "?">>)
       THEN IF Len(path) = 3 THEN 3
            ELSE LET c == cutPath(Drop(path, 4))
                 IN  IF ~c[3] THEN Len(path) ELSE Len(path) - Len(c[2]) - 1
  ELSE IF Len(path) >= 2 /\ path[2] \in {"\\", "/"} THEN uncLen(path, 2)
  ELSE 0

RECURSIVE Backtrack(_, _, _, _)
\* the inner loop of Clean's ".." case: back up to the previous separator
Backtrack(os, buf, w, dotdot) ==
  IF w > dotdot /\ ~IsPathSeparator(os, buf[w + 1])
  THEN Backtrack(os, buf, w - 1, dotdot)
  ELSE Take(buf, w)

RECURSIVE CleanLoop(_, _, _, _, _, _)
\* the main loop of Clean: r is the next byte to read (from 1), out the
\* bytes written so far, dotdot the index where ".." must stop
CleanLoop(os, path, r, out, dotdot, rooted) ==
  LET n == Len(path)
      sep == PathSeparator(os)
  IN  IF r > n THEN out
      ELSE IF IsPathSeparator(os, path[r])
        THEN CleanLoop(os, path, r + 1, out, dotdot, rooted)
      ELSE IF path[r] = "." /\ (r = n \/ IsPathSeparator(os, path[r + 1]))
        THEN CleanLoop(os, path, r + 1, out, dotdot, rooted)
      ELSE IF path[r] = "." /\ path[r + 1] = "."
              /\ (r + 1 = n \/ IsPathSeparator(os, path[r + 2]))
        THEN IF Len(out) > dotdot
               THEN CleanLoop(os, path, r + 2,
                              Backtrack(os, out, Len(out) - 1, dotdot), dotdot, rooted)
             ELSE IF ~rooted
               THEN LET o2 == (IF Len(out) > 0 THEN Append(out, sep) ELSE out)
                                \o <<".", ".">>
                    IN  CleanLoop(os, path, r + 2, o2, Len(o2), rooted)
             ELSE CleanLoop(os, path, r + 2, out, dotdot, rooted)
      ELSE LET o1 == IF (rooted /\ Len(out) # 1) \/ (~rooted /\ Len(out) # 0)
                     THEN Append(out, sep) ELSE out
               rest == Drop(path, r - 1)
               k == IndexAny(rest, IF os = "windows" THEN {"\\", "/"} ELSE {"/"})
               e == IF k = 0 THEN n + 1 ELSE r + k - 1
           IN  CleanLoop(os, path, e, o1 \o SubSeq(path, r, e - 1), dotdot, rooted)

\* postClean of path_windows.go: keeps a cleaned relative path from turning
\* into a drive-relative or a \??\ path.  It acts only when Clean rewrote
\* the path (lazybuf.buf # nil), taken here as: buf is not a prefix of path.
postClean(os, volLen, path, buf) ==
  IF os # "windows" \/ volLen # 0 \/ buf = Take(path, Len(buf)) THEN buf
  ELSE LET first == cutPath(buf)[1]
       IN  IF \E i \in 1..Len(first) : first[i] = ":"
           THEN <<".", "\\">> \o buf
           ELSE IF Len(buf) >= 3 /\ buf[1] \in {"\\", "/"} /\ buf[2] = "?" /\ buf[3] = "?"
           THEN <<"\\", ".">> \o buf
           ELSE buf

\* filepath.Clean
Clean(os, originalPath) ==
  LET afterVolume(volLen) ==
        LET vol == Take(originalPath, volLen)
            path == Drop(originalPath, volLen)
            finish(body) ==
              FromSlash(os, vol \o postClean(os, volLen, path,
                                             IF body = <<>> THEN <<".">> ELSE body))
        IN  IF path = <<>>
            THEN IF /\ volLen > 1
                    /\ IsPathSeparator(os, originalPath[1])
                    /\ IsPathSeparator(os, originalPath[2])
                 THEN FromSlash(os, originalPath)
                 ELSE Append(originalPath, ".")
            ELSE LET rooted == IsPathSeparator(os, path[1])
                     start == IF rooted THEN <<PathSeparator(os)>> ELSE <<>>
                 IN  finish(CleanLoop(os, path, IF rooted THEN 2 ELSE 1, start,
                                      IF rooted THEN 1 ELSE 0, rooted))
  IN  afterVolume(volumeNameLen(os, originalPath))

\* filepath.Join(base, elem) for a base that ends in neither a separator nor
\* a colon: the elements are joined by one separator and cleaned
FilepathJoin(os, base, elem) ==
  IF base = <<>> /\ elem = <<>> THEN <<>>
  ELSE IF base = <<>> THEN Clean(os, elem)
  ELSE IF elem = <<>> THEN Clean(os, base)
  ELSE Clean(os, base \o <<PathSeparator(os)>> \o elem)

\* ------------------------------------------------------------------------
\* Package sanitizer
\* ------------------------------------------------------------------------

\* sanitizePath of the !windows build with the separators normalized only
\* after Clean has run
sanitizePathNixReplaceLate(in) ==
  TrimPrefix(ReplaceBytes(Clean("posix", <<nixPathSeparator>> \o in), {"\\"}, "/"),
             nixPathSeparator)

\* sanitizePath of the !windows build
sanitizePathNix(in) ==
  LET in1 == ReplaceBytes(in, {"\\"}, "/")
  IN  TrimPrefix(Clean("posix", <<nixPathSeparator>> \o in1), nixPathSeparator)

\* isReservedName that asks for nothing at all after the device name
isReservedNameExact(name) ==
  LET nameLen == Len(name)
      prefix == ToUpper(Take(name, 3))
      reservedNameLen ==
        IF nameLen < 3 THEN 0
        ELSE IF prefix = <<"C", "O", "N">>
          THEN 3 + (IF nameLen >= 6 /\ name[6] = "$"
                       /\ EqualFold(SubSeq(name, 4, 6), <<"I", "N", "$">>)
                    THEN 3 ELSE 0)
                 + (IF nameLen >= 7 /\ name[7] = "$"
                       /\ EqualFold(SubSeq(name, 4, 7), <<"O", "U", "T", "$">>)
                    THEN 4 ELSE 0)
        ELSE IF prefix \in {<<"P", "R", "N">>, <<"A", "U", "X">>, <<"N", "U", "L">>}
          THEN 3
        ELSE IF prefix \in {<<"C", "O", "M">>, <<"L", "P", "T">>} /\ nameLen >= 4
          THEN IF name[4] \in {"1", "2", "3", "4", "5", "6", "7", "8", "9"} THEN 4
               ELSE IF name[4] = "xC2" /\ nameLen >= 5 /\ name[5] \in {"xB9", "xB2", "xB3"}
                 THEN 5
               ELSE 0
        ELSE 0
  IN  nameLen >= 3 /\ reservedNameLen # 0 /\ Drop(name, reservedNameLen) = <<>>

\* isReservedName of the windows build
isReservedName(name) ==
  LET nameLen == Len(name)
      prefix == ToUpper(Take(name, 3))
      reservedNameLen ==
        IF nameLen < 3 THEN 0
        ELSE IF prefix = <<"C", "O", "N">>
          THEN 3 + (IF nameLen >= 6 /\ name[6] = "$"
                       /\ EqualFold(SubSeq(name, 4, 6), <<"I", "N", "$">>)
                    THEN 3 ELSE 0)
                 + (IF nameLen >= 7 /\ name[7] = "$"
                       /\ EqualFold(SubSeq(name, 4, 7), <<"O", "U", "T", "$">>)
                    THEN 4 ELSE 0)
        ELSE IF prefix \in {<<"P", "R", "N">>, <<"A", "U", "X">>, <<"N", "U", "L">>}
          THEN 3
        ELSE IF prefix \in {<<"C", "O", "M">>, <<"L", "P", "T">>} /\ nameLen >= 4
          THEN IF name[4] \in {"1", "2", "3", "4", "5", "6", "7", "8", "9"} THEN 4
               ELSE IF name[4] = "xC2" /\ nameLen >= 5 /\ name[5] \in {"xB9", "xB2", "xB3"}
                 THEN 5
               ELSE 0
        ELSE 0
  IN  nameLen >= 3 /\ reservedNameLen # 0 /\ IsBlank(Drop(name, reservedNameLen))

RECURSIVE guardPartsSingleExt(_, _)
\* the loop of the windows sanitizePath that guards a reserved base only
\* when at most one extension follows it
guardPartsSingleExt(p, first) ==
  IF p = <<>> THEN <<>>
  ELSE LET c == Cut(p, winPathSeparator)
           part == c[1]
           b == Cut(part, ".")
           base == b[1]
           ext == b[2]
       IN  (IF first THEN <<>> ELSE <<winPathSeparator>>)
             \o base
             \o (IF isReservedName(base) /\ IndexAny(ext, {"."}) = 0
                 THEN <<"-", "s", "a", "f", "e">> ELSE <<>>)
             \o (IF ext # <<>> THEN <<".">> \o ext ELSE <<>>)
             \o guardPartsSingleExt(c[2], FALSE)

RECURSIVE guardParts(_, _)
\* the loop of the windows sanitizePath over the components of tmp
guardParts(p, first) ==
  IF p = <<>> THEN <<>>
  ELSE LET c == Cut(p, winPathSeparator)
           part == c[1]
           b == Cut(part, ".")
           base == b[1]
           ext == b[2]
       IN  (IF first THEN <<>> ELSE <<winPathSeparator>>)
             \o base
             \o (IF isReservedName(base) THEN <<"-", "s", "a", "f", "e">> ELSE <<>>)
             \o (IF ext # <<>> THEN <<".">> \o ext ELSE <<>>)
             \o guardParts(c[2], FALSE)

\* sanitizePath of the windows build with a replacer that leaves '?' alone
sanitizePathWinKeepQuestion(in) ==
  LET in1 == ReplaceBytes(in, {":", "/"}, "\\")
      tmp == Clean("windows",
                   TrimLeft(Clean("windows", <<winPathSeparator>> \o in1), winPathSeparator))
  IN  guardParts(tmp, TRUE)

\* sanitizePath of the windows build
sanitizePathWin(in) ==
  LET in1 == ReplaceBytes(in, {":", "/", "?"}, "\\")
      tmp == Clean("windows",
                   TrimLeft(Clean("windows", <<winPathSeparator>> \o in1), winPathSeparator))
  IN  guardParts(tmp, TRUE)

\* sanitizePath, chosen by the build target
sanitizePath(os, in) == IF os = "windows" THEN sanitizePathWin(in) ELSE sanitizePathNix(in)

\* SanitizePath that puts the separator back without looking at the result
SanitizePathKeepSeparator(os, in) ==
  LET addBack(sanitized) ==
        IF /\ Len(in) > 0
           /\ (in[Len(in)] = nixPathSeparator \/ in[Len(in)] = winPathSeparator)
        THEN Append(sanitized, PathSeparator(os))
        ELSE sanitized
  IN  addBack(sanitizePath(os, in))

\* SanitizePath that never puts the trailing separator back
SanitizePathNoSeparator(os, in) == sanitizePath(os, in)

\* SanitizePath, as the code computes it
SanitizePathOf(os, in) ==
  LET addBack(sanitized) ==
        IF /\ Len(in) > 0
           /\ (in[Len(in)] = nixPathSeparator \/ in[Len(in)] = winPathSeparator)
           /\ Len(sanitized) > 0
        THEN Append(sanitized, PathSeparator(os))
        ELSE sanitized
  IN  addBack(sanitizePath(os, in))

\* the names of the entries of the tar and zip archives read below
EntryNames ==
  { <<"a">>, <<"A", "/">>, <<"A", "/", "b">>, <<".", ".", "/", "a">>, <<"b", "~", "1">>,
    <<"b">>, <<"c", "~">>, <<".", ".", "/", "t">>, <<"/", "a">>, <<"a", "/">>,
    <<"a", "/", "b">>, <<"c">>, <<"d", "/">> }

\* the entry names with what SanitizePath makes of them, once and once more
SanitizedOnce ==
  EntryNames \cup {SanitizePathOf(os, n) : os \in {"posix", "windows"}, n \in EntryNames}

SanitizedTwice ==
  SanitizedOnce \cup {SanitizePathOf(os, n) : os \in {"posix", "windows"}, n \in SanitizedOnce}

\* SanitizePath of the names the readers meet, computed once
SanitizedNames ==
  [os \in {"posix", "windows"} |-> [n \in SanitizedTwice |-> SanitizePathOf(os, n)]]

\* SanitizePath: for a name the readers meet the value is looked up in
\* SanitizedNames, for every other input it is computed on the spot
SanitizePath(os, in) ==
  IF in \in SanitizedTwice THEN SanitizedNames[os][in] ELSE SanitizePathOf(os, in)

\* a regular expression that asks for the tilde alone
winShortFilenameRegexTilde(part) == \E i \in 1..Len(part) : part[i] = "~"

\* the regular expression ~\d+\.? matches somewhere in part
winShortFilenameRegex(part) ==
  \E i \in 1..(Len(part) - 1) :
    part[i] = "~" /\ part[i + 1] \in {"0", "1", "2", "3", "4", "5", "6", "7", "8", "9"}

\* HasWindowsShortFilenames
HasWindowsShortFilenames(in) ==
  LET parts == Split(ReplaceBytes(in, {"\\"}, "/"), "/")
  IN  \E k \in 1..Len(parts) : winShortFilenameRegex(parts[k])

\* ------------------------------------------------------------------------
\* Package tar: security modes, headers, the host decoder
\* ------------------------------------------------------------------------

SkipSpecialFiles == 1

SanitizeFileMode == 2

SanitizeFilenames == 4

DropXattrs == 16

PreventSymlinkTraversal == 32

PreventCaseInsensitiveSymlinkTraversal == 64

SkipWindowsShortFilenames == 128

MaximumSecurityMode ==
  SkipSpecialFiles + SanitizeFileMode + SanitizeFilenames + PreventSymlinkTraversal
    + DropXattrs + PreventCaseInsensitiveSymlinkTraversal + SkipWindowsShortFilenames

\* DefaultSecurityMode of the build target (tar_unix.go, tar_win.go, tar_darwin.go)
DefaultSecurityMode(os) ==
  IF os = "windows"
    THEN SanitizeFilenames + PreventSymlinkTraversal
           + PreventCaseInsensitiveSymlinkTraversal + SkipWindowsShortFilenames
  ELSE IF os = "darwin"
    THEN SanitizeFilenames + PreventSymlinkTraversal + PreventCaseInsensitiveSymlinkTraversal
  ELSE SanitizeFilenames + PreventSymlinkTraversal

\* securityMode&flag != 0 for a one-bit flag
HasFlag(mode, flag) == (mode \div flag) % 2 = 1

TypeReg == "0"

TypeLink == "1"

TypeSymlink == "2"

TypeChar == "3"

TypeBlock == "4"

TypeDir == "5"

TypeFifo == "6"

allowListedPaxKeys == <<"ctime", "mtime", "atime">>

\* a map[string]string with no key
EmptyMap == [k \in {} |-> ""]

\* tar.Header: the fields the reader looks at
Header(name, linkname, typeflag, mode, xattrs, pax) ==
  [Name |-> name, Linkname |-> linkname, Typeflag |-> typeflag, Mode |-> mode,
   Xattrs |-> xattrs, PAXRecords |-> pax]

\* the (nil) header returned together with an error
NoHeader == [Name |-> <<>>, Linkname |-> <<>>, Typeflag |-> "nil", Mode |-> 0,
             Xattrs |-> EmptyMap, PAXRecords |-> EmptyMap]

\* the headers archives are built from
TarEntries ==
  { Header(<<"a">>, <<"/">>, TypeSymlink, 511, EmptyMap, EmptyMap),
    Header(<<"A", "/">>, <<"/">>, TypeSymlink, 511, EmptyMap, EmptyMap),
    Header(<<"A", "/", "b">>, <<>>, TypeReg, 35309,
           [k \in {"user.x"} |-> "v"],
           [k \in {"mtime", "SCHILY.xattr.user.x", "MTIME"} |-> "v"]),
    Header(<<".", ".", "/", "a">>, <<>>, TypeReg, 1444, EmptyMap, [k \in {"atime"} |-> "1"]),
    Header(<<"b", "~", "1">>, <<>>, TypeDir, 493, EmptyMap, EmptyMap),
    Header(<<"b">>, <<"a">>, TypeLink, 420, EmptyMap, EmptyMap),
    Header(<<"b">>, <<>>, TypeSymlink, 511, EmptyMap, EmptyMap),
    Header(<<"c", "~">>, <<>>, TypeChar, 420, EmptyMap, EmptyMap) }

\* the host decoder (archive/tar.Reader.Next) at position pos of an archive:
\* the next header, or the archive's end (io.EOF or a decoding error), which
\* it keeps returning
unsafeNext(archive, pos) ==
  IF pos < Len(archive.entries)
  THEN [h |-> archive.entries[pos + 1], err |-> "nil", pos |-> pos + 1]
  ELSE [h |-> NoHeader, err |-> archive.end, pos |-> pos]

\* Read of the host decoder: the bytes of the entry it stands on, named by
\* the entry's place in the archive; nothing (0) before the first header,
\* once its Next has failed (err is what its last Next returned), and for
\* an entry that is not a regular file
unsafeRead(archive, pos, err) ==
  IF pos = 0 \/ err # "nil" THEN 0
  ELSE IF archive.entries[pos].Typeflag # TypeReg THEN 0
  ELSE pos

\* leaveKeys that drops the extended-attribute records and keeps the rest
leaveKeysDenyXattr(in, allowListedKeys) ==
  [k \in {x \in DOMAIN in : x \notin {"SCHILY.xattr.user.x"}} |-> in[k]]

\* leaveKeys
leaveKeys(in, allowListedKeys) ==
  [k \in {x \in DOMAIN in : \E i \in 1..Len(allowListedKeys) : allowListedKeys[i] = x}
     |-> in[k]]

\* the key under which Next looks an entry up in, and adds it to, tr.symlinks
symlinkKey(os, mode, name) ==
  LET fold(hName) ==
        IF HasFlag(mode, PreventCaseInsensitiveSymlinkTraversal) THEN ToLower(hName) ELSE hName
  IN  fold(TrimSuffix(SanitizePath(os, name), "/"))

\* the prefix walk of Next: some leading components of hName are a known link
traversal(symlinks, hName) ==
  LET n == Split(hName, "/")
  IN  \E i \in 1..Len(n) : Join(SubSeq(n, 1, i), "/") \in symlinks

\* the loop body of Reader.Next with hard links counted among the safe types
filterEntryLinkAllowed(os, mode, symlinks, h) ==
  IF HasFlag(mode, SkipSpecialFiles)
       /\ h.Typeflag \notin {TypeReg, TypeDir, TypeSymlink, TypeLink}
  THEN [verdict |-> "special", h |-> h, symlinks |-> symlinks]
  ELSE
    LET h1 == IF HasFlag(mode, SanitizeFileMode) THEN [h EXCEPT !.Mode = h.Mode % 512] ELSE h
        named(h2) ==
          LET h3 == IF HasFlag(mode, DropXattrs)
                    THEN [h2 EXCEPT !.Xattrs = EmptyMap,
                                    !.PAXRecords = leaveKeys(h2.PAXRecords, allowListedPaxKeys)]
                    ELSE h2
              keyed(hName) ==
                IF HasFlag(mode, SkipWindowsShortFilenames) /\ HasWindowsShortFilenames(h2.Name)
                  THEN [verdict |-> "short", h |-> h2, symlinks |-> symlinks]
                ELSE IF HasFlag(mode, PreventSymlinkTraversal) /\ traversal(symlinks, hName)
                  THEN [verdict |-> "traversal", h |-> h2, symlinks |-> symlinks]
                ELSE [verdict |-> "yield", h |-> h3,
                      symlinks |-> IF HasFlag(mode, PreventSymlinkTraversal)
                                        /\ h2.Linkname # <<>>
                                   THEN symlinks \cup {hName} ELSE symlinks]
          IN  keyed(symlinkKey(os, mode, h2.Name))
    IN  named(IF HasFlag(mode, SanitizeFilenames)
              THEN [h1 EXCEPT !.Name = SanitizePath(os, h1.Name)] ELSE h1)

\* the loop body of Reader.Next with the mode masked by 07777
filterEntryMask07777(os, mode, symlinks, h) ==
  IF HasFlag(mode, SkipSpecialFiles) /\ h.Typeflag \notin {TypeReg, TypeDir, TypeSymlink}
  THEN [verdict |-> "special", h |-> h, symlinks |-> symlinks]
  ELSE
    LET h1 == IF HasFlag(mode, SanitizeFileMode) THEN [h EXCEPT !.Mode = h.Mode % 4096] ELSE h
        named(h2) ==
          LET h3 == IF HasFlag(mode, DropXattrs)
                    THEN [h2 EXCEPT !.Xattrs = EmptyMap,
                                    !.PAXRecords = leaveKeys(h2.PAXRecords, allowListedPaxKeys)]
                    ELSE h2
              keyed(hName) ==
                IF HasFlag(mode, SkipWindowsShortFilenames) /\ HasWindowsShortFilenames(h2.Name)
                  THEN [verdict |-> "short", h |-> h2, symlinks |-> symlinks]
                ELSE IF HasFlag(mode, PreventSymlinkTraversal) /\ traversal(symlinks, hName)
                  THEN [verdict |-> "traversal", h |-> h2, symlinks |-> symlinks]
                ELSE [verdict |-> "yield", h |-> h3,
                      symlinks |-> IF HasFlag(mode, PreventSymlinkTraversal)
                                        /\ h2.Linkname # <<>>
                                   THEN symlinks \cup {hName} ELSE symlinks]
          IN  keyed(symlinkKey(os, mode, h2.Name))
    IN  named(IF HasFlag(mode, SanitizeFilenames)
              THEN [h1 EXCEPT !.Name = SanitizePath(os, h1.Name)] ELSE h1)

\* the loop body of Reader.Next that records every entry it yields as a link
filterEntryRecordAll(os, mode, symlinks, h) ==
  IF HasFlag(mode, SkipSpecialFiles) /\ h.Typeflag \notin {TypeReg, TypeDir, TypeSymlink}
  THEN [verdict |-> "special", h |-> h, symlinks |-> symlinks]
  ELSE
    LET h1 == IF HasFlag(mode, SanitizeFileMode) THEN [h EXCEPT !.Mode = h.Mode % 512] ELSE h
        named(h2) ==
          LET h3 == IF HasFlag(mode, DropXattrs)
                    THEN [h2 EXCEPT !.Xattrs = EmptyMap,
                                    !.PAXRecords = leaveKeys(h2.PAXRecords, allowListedPaxKeys)]
                    ELSE h2
              keyed(hName) ==
                IF HasFlag(mode, SkipWindowsShortFilenames) /\ HasWindowsShortFilenames(h2.Name)
                  THEN [verdict |-> "short", h |-> h2, symlinks |-> symlinks]
                ELSE IF HasFlag(mode, PreventSymlinkTraversal) /\ traversal(symlinks, hName)
                  THEN [verdict |-> "traversal", h |-> h2, symlinks |-> symlinks]
                ELSE [verdict |-> "yield", h |-> h3,
                      symlinks |-> IF HasFlag(mode, PreventSymlinkTraversal)
                                   THEN symlinks \cup {hName} ELSE symlinks]
          IN  keyed(symlinkKey(os, mode, h2.Name))
    IN  named(IF HasFlag(mode, SanitizeFilenames)
              THEN [h1 EXCEPT !.Name = SanitizePath(os, h1.Name)] ELSE h1)

\* the loop body of Reader.Next that keeps one name, the comparison key, for
\* the lookup and for the header it yields
filterEntryNameIsKey(os, mode, symlinks, h) ==
  IF HasFlag(mode, SkipSpecialFiles) /\ h.Typeflag \notin {TypeReg, TypeDir, TypeSymlink}
  THEN [verdict |-> "special", h |-> h, symlinks |-> symlinks]
  ELSE
    LET h1 == IF HasFlag(mode, SanitizeFileMode) THEN [h EXCEPT !.Mode = h.Mode % 512] ELSE h
        named(h2) ==
          LET h3 == IF HasFlag(mode, DropXattrs)
                    THEN [h2 EXCEPT !.Xattrs = EmptyMap,
                                    !.PAXRecords = leaveKeys(h2.PAXRecords, allowListedPaxKeys)]
                    ELSE h2
              keyed(hName) ==
                IF HasFlag(mode, SkipWindowsShortFilenames) /\ HasWindowsShortFilenames(h2.Name)
                  THEN [verdict |-> "short", h |-> h2, symlinks |-> symlinks]
                ELSE IF HasFlag(mode, PreventSymlinkTraversal) /\ traversal(symlinks, hName)
                  THEN [verdict |-> "traversal", h |-> h2, symlinks |-> symlinks]
                ELSE [verdict |-> "yield",
                      h |-> IF HasFlag(mode, PreventSymlinkTraversal)
                            THEN [h3 EXCEPT !.Name = hName] ELSE h3,
                      symlinks |-> IF HasFlag(mode, PreventSymlinkTraversal)
                                        /\ h2.Linkname # <<>>
                                   THEN symlinks \cup {hName} ELSE symlinks]
          IN  keyed(symlinkKey(os, mode, h2.Name))
    IN  named(IF HasFlag(mode, SanitizeFilenames)
              THEN [h1 EXCEPT !.Name = SanitizePath(os, h1.Name)] ELSE h1)

\* one iteration of the loop of Reader.Next on the host header h: the
\* verdict ("yield" or the reason of the drop), the header as modified and
\* the symlink set afterwards
filterEntry(os, mode, symlinks, h) ==
  IF HasFlag(mode, SkipSpecialFiles) /\ h.Typeflag \notin {TypeReg, TypeDir, TypeSymlink}
  THEN [verdict |-> "special", h |-> h, symlinks |-> symlinks]
  ELSE
    LET h1 == IF HasFlag(mode, SanitizeFileMode) THEN [h EXCEPT !.Mode = h.Mode % 512] ELSE h
        named(h2) ==
          LET h3 == IF HasFlag(mode, DropXattrs)
                    THEN [h2 EXCEPT !.Xattrs = EmptyMap,
                                    !.PAXRecords = leaveKeys(h2.PAXRecords, allowListedPaxKeys)]
                    ELSE h2
              keyed(hName) ==
                IF HasFlag(mode, SkipWindowsShortFilenames) /\ HasWindowsShortFilenames(h2.Name)
                  THEN [verdict |-> "short", h |-> h2, symlinks |-> symlinks]
                ELSE IF HasFlag(mode, PreventSymlinkTraversal) /\ traversal(symlinks, hName)
                  THEN [verdict |-> "traversal", h |-> h2, symlinks |-> symlinks]
                ELSE [verdict |-> "yield", h |-> h3,
                      symlinks |-> IF HasFlag(mode, PreventSymlinkTraversal)
                                        /\ h2.Linkname # <<>>
                                   THEN symlinks \cup {hName} ELSE symlinks]
          IN  keyed(symlinkKey(os, mode, h2.Name))
    IN  named(IF HasFlag(mode, SanitizeFilenames)
              THEN [h1 EXCEPT !.Name = SanitizePath(os, h1.Name)] ELSE h1)

RECURSIVE nextLoopEOF(_, _, _, _, _, _)
\* Reader.Next that reports every end of the host decoder as io.EOF
nextLoopEOF(os, archive, mode, pos, symlinks, steps) ==
  LET u == unsafeNext(archive, pos)
  IN  IF u.err # "nil"
      THEN [h |-> u.h, err |-> "EOF", pos |-> u.pos, symlinks |-> symlinks, steps |-> steps]
      ELSE LET filtered(f) ==
                 LET step == [idx |-> u.pos, mode |-> mode, verdict |-> f.verdict, h |-> f.h]
                 IN  IF f.verdict = "yield"
                     THEN [h |-> f.h, err |-> "nil", pos |-> u.pos, symlinks |-> f.symlinks,
                           steps |-> Append(steps, step)]
                     ELSE nextLoopEOF(os, archive, mode, u.pos, f.symlinks, Append(steps, step))
           IN  filtered(filterEntry(os, mode, symlinks, u.h))

RECURSIVE nextLoopFreshSet(_, _, _, _, _, _)
\* Reader.Next that lets go of its symlink map when the host decoder ends
nextLoopFreshSet(os, archive, mode, pos, symlinks, steps) ==
  LET u == unsafeNext(archive, pos)
  IN  IF u.err # "nil"
      THEN [h |-> u.h, err |-> u.err, pos |-> u.pos, symlinks |-> {}, steps |-> steps]
      ELSE LET filtered(f) ==
                 LET step == [idx |-> u.pos, mode |-> mode, verdict |-> f.verdict, h |-> f.h]
                 IN  IF f.verdict = "yield"
                     THEN [h |-> f.h, err |-> "nil", pos |-> u.pos, symlinks |-> f.symlinks,
                           steps |-> Append(steps, step)]
                     ELSE nextLoopFreshSet(os, archive, mode, u.pos, f.symlinks,
                                           Append(steps, step))
           IN  filtered(filterEntry(os, mode, symlinks, u.h))

\* Reader.Next that reports the end of the archive at the first entry it drops
nextLoopStopAtDrop(os, archive, mode, pos, symlinks, steps) ==
  LET u == unsafeNext(archive, pos)
  IN  IF u.err # "nil"
      THEN [h |-> u.h, err |-> u.err, pos |-> u.pos, symlinks |-> symlinks, steps |-> steps]
      ELSE LET filtered(f) ==
                 LET step == [idx |-> u.pos, mode |-> mode, verdict |-> f.verdict, h |-> f.h]
                 IN  IF f.verdict = "yield"
                     THEN [h |-> f.h, err |-> "nil", pos |-> u.pos, symlinks |-> f.symlinks,
                           steps |-> Append(steps, step)]
                     ELSE [h |-> NoHeader, err |-> archive.end, pos |-> u.pos,
                           symlinks |-> f.symlinks, steps |-> Append(steps, step)]
           IN  filtered(filterEntry(os, mode, symlinks, u.h))

RECURSIVE nextLoop(_, _, _, _, _, _)
\* Reader.Next: the loop runs until the host returns an error or an entry
\* passes the filters; steps collects one record per host header consumed
nextLoop(os, archive, mode, pos, symlinks, steps) ==
  LET u == unsafeNext(archive, pos)
  IN  IF u.err # "nil"
      THEN [h |-> u.h, err |-> u.err, pos |-> u.pos, symlinks |-> symlinks, steps |-> steps]
      ELSE LET filtered(f) ==
                 LET step == [idx |-> u.pos, mode |-> mode, verdict |-> f.verdict, h |-> f.h]
                 IN  IF f.verdict = "yield"
                     THEN [h |-> f.h, err |-> "nil", pos |-> u.pos, symlinks |-> f.symlinks,
                           steps |-> Append(steps, step)]
                     ELSE nextLoop(os, archive, mode, u.pos, f.symlinks, Append(steps, step))
           IN  filtered(filterEntry(os, mode, symlinks, u.h))

\* ------------------------------------------------------------------------
\* Package zip: security modes, files, applyMagic
\* ------------------------------------------------------------------------

ZipPreventSymlinkTraversal == 1

ZipSkipSpecialFiles == 2

ZipSanitizeFileMode == 4

ZipSanitizeFilenames == 8

ZipDefaultSecurityMode == ZipSanitizeFilenames + ZipPreventSymlinkTraversal

ZipMaximumSecurityMode == ZipDefaultSecurityMode + ZipSanitizeFileMode + ZipSkipSpecialFiles

\* the Unix st_mode kept in the high half of ExternalAttrs: the file type
\* (S_IFMT), the set-id and sticky bits and the nine permission bits
UnixMode(fmt, special, perm) == [fmt |-> fmt, special |-> special, perm |-> perm]

\* zip.File: the header fields the reader looks at.  creator is the host
\* system of CreatorVersion, msdos the MS-DOS attributes of ExternalAttrs,
\* headerOffset the place of the entry in the archive
ZipFile(name, creator, unix, msdos, off) ==
  [Name |-> name, creator |-> creator, unix |-> unix, msdos |-> msdos, headerOffset |-> off]

\* fs.FileMode: the mode bits that are set and the permission bits
FileMode(bits, perm) == [bits |-> bits, perm |-> perm]

\* unixModeToFileMode of archive/zip
unixModeToFileMode(m) ==
  FileMode(
    (CASE m.fmt = "BLK" -> {"ModeDevice"}
       [] m.fmt = "CHR" -> {"ModeDevice", "ModeCharDevice"}
       [] m.fmt = "DIR" -> {"ModeDir"}
       [] m.fmt = "FIFO" -> {"ModeNamedPipe"}
       [] m.fmt = "LNK" -> {"ModeSymlink"}
       [] m.fmt = "SOCK" -> {"ModeSocket"}
       [] OTHER -> {})
      \cup (IF "ISGID" \in m.special THEN {"ModeSetgid"} ELSE {})
      \cup (IF "ISUID" \in m.special THEN {"ModeSetuid"} ELSE {})
      \cup (IF "ISVTX" \in m.special THEN {"ModeSticky"} ELSE {}),
    m.perm)

\* msdosModeToFileMode of archive/zip
msdosModeToFileMode(msdos) ==
  LET perm == IF "msdosDir" \in msdos THEN 511 ELSE 438
  IN  FileMode(IF "msdosDir" \in msdos THEN {"ModeDir"} ELSE {},
               \* mode &^= 0222: both 0777 and 0666 have the three write bits set
               IF "msdosReadOnly" \in msdos THEN perm - 146 ELSE perm)

\* FileHeader.Mode
Mode(f) ==
  LET m == IF f.creator = "unix" THEN unixModeToFileMode(f.unix)
           ELSE IF f.creator = "fat" THEN msdosModeToFileMode(f.msdos)
           ELSE FileMode({}, 0)
  IN  IF Len(f.Name) > 0 /\ f.Name[Len(f.Name)] = "/"
      THEN FileMode(m.bits \cup {"ModeDir"}, m.perm)
      ELSE m

ModeType ==
  {"ModeDir", "ModeSymlink", "ModeNamedPipe", "ModeSocket", "ModeDevice", "ModeCharDevice",
   "ModeIrregular"}

\* fileModeToUnixMode of archive/zip
fileModeToUnixMode(mode) ==
  LET t == mode.bits \cap ModeType
  IN  UnixMode(
        (CASE t = {"ModeDir"} -> "DIR"
           [] t = {"ModeSymlink"} -> "LNK"
           [] t = {"ModeNamedPipe"} -> "FIFO"
           [] t = {"ModeSocket"} -> "SOCK"
           [] t = {"ModeDevice"} -> "BLK"
           [] t = {"ModeDevice", "ModeCharDevice"} -> "CHR"
           [] OTHER -> "REG"),
        (IF "ModeSetuid" \in mode.bits THEN {"ISUID"} ELSE {})
          \cup (IF "ModeSetgid" \in mode.bits THEN {"ISGID"} ELSE {})
          \cup (IF "ModeSticky" \in mode.bits THEN {"ISVTX"} ELSE {}),
        mode.perm)

\* FileHeader.SetMode
SetMode(f, mode) ==
  [f EXCEPT !.creator = "unix",
            !.unix = fileModeToUnixMode(mode),
            !.msdos = (IF "ModeDir" \in mode.bits THEN {"msdosDir"} ELSE {})
                        \cup (IF (mode.perm \div 128) % 2 = 0 THEN {"msdosReadOnly"} ELSE {})]

\* isSpecialFile
isSpecialFile(f) ==
  Mode(f).bits \cap {"ModeDevice", "ModeNamedPipe", "ModeSocket", "ModeCharDevice",
                     "ModeIrregular"} # {}

\* the body of the loop of applyMagic on (a copy of) the file fp: whether
\* the file is kept, the copy as modified and the symlink set afterwards
applyMagicEntry(os, securityMode, symlinks, fp) ==
  LET named(f1) ==
        LET fName == TrimSuffix(f1.Name, "/")
            pst == HasFlag(securityMode, ZipPreventSymlinkTraversal)
            symlinks1 == IF pst /\ "ModeSymlink" \in Mode(f1).bits
                         THEN symlinks \cup {fName} ELSE symlinks
            f2 == IF HasFlag(securityMode, ZipSanitizeFileMode)
                  THEN SetMode(f1, FileMode(Mode(f1).bits \ {"ModeTemporary", "ModeAppend",
                                                             "ModeExclusive", "ModeSetuid",
                                                             "ModeSetgid", "ModeSticky"},
                                            Mode(f1).perm))
                  ELSE f1
        IN  IF pst /\ traversal(symlinks, fName)
              THEN [keep |-> FALSE, f |-> f1, symlinks |-> symlinks]
            ELSE IF HasFlag(securityMode, ZipSkipSpecialFiles) /\ isSpecialFile(f1)
              THEN [keep |-> FALSE, f |-> f1, symlinks |-> symlinks1]
            ELSE [keep |-> TRUE, f |-> f2, symlinks |-> symlinks1]
  IN  named(IF HasFlag(securityMode, ZipSanitizeFilenames)
            THEN [fp EXCEPT !.Name = SanitizePath(os, fp.Name)] ELSE fp)

RECURSIVE applyMagicLoop(_, _, _, _, _, _)
\* the loop of applyMagic from file i on
applyMagicLoop(os, files, securityMode, i, symlinks, re) ==
  IF i > Len(files) THEN re
  ELSE LET next(e) == applyMagicLoop(os, files, securityMode, i + 1, e.symlinks,
                                     IF e.keep THEN Append(re, e.f) ELSE re)
       IN  next(applyMagicEntry(os, securityMode, symlinks, files[i]))

RECURSIVE applyMagicSymlinks(_, _, _, _, _)
\* the map symlinks of applyMagic after the loop has handled the files from i on
applyMagicSymlinks(os, files, securityMode, i, symlinks) ==
  IF i > Len(files) THEN symlinks
  ELSE LET next(e) == applyMagicSymlinks(os, files, securityMode, i + 1, e.symlinks)
       IN  next(applyMagicEntry(os, securityMode, symlinks, files[i]))

\* applyMagic
applyMagic(os, files, securityMode) == applyMagicLoop(os, files, securityMode, 1, {}, <<>>)

\* ------------------------------------------------------------------------
\* State machine: one run of the sanitizer
\* ------------------------------------------------------------------------

Platforms == {"posix", "windows"}

\* the bytes the enumerated sanitizer inputs are made of
SanAlphabet == {"/", "\\", ".", "a", ":"}

\* inputs of the sanitizer tests that the enumeration does not reach
SanVectors ==
  { <<".", ".", "/", ".", ".", "/", "s", "/", "t">>,
    <<"\\", "\\", ".", "\\", "C", ":", "\\", "s">>,
    <<"\\", "?", "?", "\\", "C", ":", "\\", "s">>,
    <<"s", "\\", "L", "P", "T", "1", " ", ".", "f">>,
    <<"C", "O", "N", ".", "t", ".", "t">>,
    <<"s", "?", ".", "t">>,
    <<"s", "/", "p", "\\">>,
    <<"C", ":", "\\", "s", "\\", "t">>,
    <<"\\", "\\", "F", "S", "\\", "s", "\\", "t">>,
    <<"s", ".", "t", ":", "a">> }

\* component bases that are device names, in either letter case, and bases
\* that only look like one
DeviceBases ==
  { <<"C", "O", "N">>, <<"c", "o", "n">>, <<"P", "R", "N">>, <<"a", "u", "x">>,
    <<"N", "u", "l">>, <<"C", "O", "N", "I", "N", "$">>, <<"c", "o", "n", "i", "n", "$">>,
    <<"C", "O", "N", "O", "U", "T", "$">>, <<"C", "O", "M", "1">>, <<"l", "p", "t", "9">>,
    <<"L", "P", "T", "xC2", "xB9">>, <<"c", "o", "m", "xC2", "xB2">>,
    <<"L", "P", "T", "xC2", "xB3">>,
    <<"C", "O", "M", "0">>, <<"L", "P", "T">>, <<"C", "O", "N", "X">>, <<"C", "O">>,
    <<"C", "O", "N", "I", "N">>, <<"L", "P", "T", "xC2">>, <<"C", "O", "N", "$">>, <<"a">> }

\* paths with a device-like component: the base, spaces or none, an
\* extension or none, alone or next to other components
DeviceInputs ==
  { pre \o b \o sp \o ext \o post :
      b \in DeviceBases,
      sp \in {<<>>, <<" ">>, <<" ", " ">>},
      ext \in {<<>>, <<".">>, <<".", "f">>, <<".", "t", ".", "t">>},
      pre \in {<<>>, <<"s", "\\">>},
      post \in {<<>>, <<"\\", "s">>, <<"/">>} }

\* the bytes the Windows replacer turns into separators, with a separator,
\* a dot and a letter
SepAlphabet == {":", "/", "?", "\\", ".", "s"}

SepInputs == UNION {[1..n -> SepAlphabet] : n \in 0..MaxSepLen}

SanInputs ==
  UNION {[1..n -> SanAlphabet] : n \in 0..MaxLen} \cup SanVectors \cup DeviceInputs \cup SepInputs

\* base directories of the build target
Bases(os) ==
  LET sep == PathSeparator(os)
  IN  { <<"b">>, <<sep, "b">>, <<sep, "b", sep, "c">> }

SanIdle ==
  /\ sIn = <<>> /\ sStage = "idle" /\ sOut = <<>> /\ sTwice = <<>>
  /\ sBase = <<>> /\ sJoined = <<>>

\* the caller passes sIn to SanitizePath
Sanitize ==
  /\ sStage = "input"
  /\ sOut' = SanitizePath(platform, sIn)
  /\ sStage' = "sanitized"
  /\ UNCHANGED <<platform, sIn, sTwice, sBase, sJoined, tarVars, zipVars, lastOp>>

\* the caller passes the output to SanitizePath again
Resanitize ==
  /\ sStage = "sanitized"
  /\ sTwice' = SanitizePath(platform, sOut)
  /\ sStage' = "resanitized"
  /\ UNCHANGED <<platform, sIn, sOut, sBase, sJoined, tarVars, zipVars, lastOp>>

\* the caller joins the output to a base directory
JoinBase(b) ==
  /\ sStage = "sanitized"
  /\ sBase' = b
  /\ sJoined' = FilepathJoin(platform, b, sOut)
  /\ sStage' = "joined"
  /\ UNCHANGED <<platform, sIn, sOut, sTwice, tarVars, zipVars, lastOp>>

\* ------------------------------------------------------------------------
\* State machine: tar readers
\* ------------------------------------------------------------------------

Readers == {1, 2}

EmptyArchive == [entries |-> <<>>, end |-> "EOF"]

\* how the host decoder ends an archive
HostEnds == {"EOF", "ErrHeader"}

Archives(maxEntries, entries) ==
  { [entries |-> e, end |-> x] :
      e \in UNION {[1..n -> entries] : n \in 0..maxEntries}, x \in HostEnds }

\* the modes given to SetSecurityMode
TarModes ==
  { 0,
    SanitizeFilenames + PreventSymlinkTraversal,
    PreventSymlinkTraversal + PreventCaseInsensitiveSymlinkTraversal,
    MaximumSecurityMode }

\* NewReader
NewReader(os) == [unsafeReader |-> 0, securityMode |-> DefaultSecurityMode(os), symlinks |-> {}]

NoOp == [op |-> "none", r |-> 0, arg |-> 0]

NoReturn == [h |-> NoHeader, err |-> "none"]

TarIdle ==
  /\ live = {}
  /\ host = [r \in Readers |-> EmptyArchive]
  /\ tr = [r \in Readers |-> NewReader("posix")]
  /\ log = [r \in Readers |-> <<>>]
  /\ ret = [r \in Readers |-> NoReturn]
  /\ sets = [r \in Readers |-> 0]
  /\ rd = [r \in Readers |-> 0]

\* Reader.SetSecurityMode that also starts the symlink set afresh
SetSecurityModeReset(r, s) ==
  /\ r \in live
  /\ sets[r] < MaxModeSets
  /\ tr' = [tr EXCEPT ![r].securityMode = s, ![r].symlinks = {}]
  /\ sets' = [sets EXCEPT ![r] = @ + 1]
  /\ lastOp' = [op |-> "SetSecurityMode", r |-> r, arg |-> s]
  /\ UNCHANGED <<platform, sanVars, live, host, log, ret, rd, zipVars>>

\* Reader.SetSecurityMode with the mode kept in one place for all readers
SetSecurityModeAll(r, s) ==
  /\ r \in live
  /\ sets[r] < MaxModeSets
  /\ tr' = [q \in Readers |-> IF q \in live THEN [tr[q] EXCEPT !.securityMode = s] ELSE tr[q]]
  /\ sets' = [sets EXCEPT ![r] = @ + 1]
  /\ lastOp' = [op |-> "SetSecurityMode", r |-> r, arg |-> s]
  /\ UNCHANGED <<platform, sanVars, live, host, log, ret, rd, zipVars>>

\* Reader.SetSecurityMode
SetSecurityMode(r, s) ==
  /\ r \in live
  /\ sets[r] < MaxModeSets
  /\ tr' = [tr EXCEPT ![r].securityMode = s]
  /\ sets' = [sets EXCEPT ![r] = @ + 1]
  /\ lastOp' = [op |-> "SetSecurityMode", r |-> r, arg |-> s]
  /\ UNCHANGED <<platform, sanVars, live, host, log, ret, rd, zipVars>>

\* Reader.GetSecurityMode
GetSecurityMode(r) == tr[r].securityMode

\* Reader.Next with one symlink map shared by all readers
NextSharedSymlinks(r) ==
  /\ r \in live
  /\ \E res \in {nextLoop(platform, host[r], tr[r].securityMode, tr[r].unsafeReader,
                          UNION {tr[q].symlinks : q \in live}, <<>>)} :
         /\ tr' = [q \in Readers |->
                     IF q = r THEN [tr[q] EXCEPT !.unsafeReader = res.pos,
                                                 !.symlinks = res.symlinks]
                     ELSE IF q \in live THEN [tr[q] EXCEPT !.symlinks = res.symlinks]
                     ELSE tr[q]]
         /\ log' = [log EXCEPT ![r] = @ \o res.steps]
         /\ ret' = [ret EXCEPT ![r] = [h |-> res.h, err |-> res.err]]
  /\ rd' = [rd EXCEPT ![r] = 0]
  /\ lastOp' = [op |-> "Next", r |-> r, arg |-> 0]
  /\ UNCHANGED <<platform, sanVars, live, host, sets, zipVars>>

\* Reader.Next
Next(r) ==
  /\ r \in live
  /\ \E res \in {nextLoop(platform, host[r], tr[r].securityMode, tr[r].unsafeReader,
                          tr[r].symlinks, <<>>)} :
         /\ tr' = [tr EXCEPT ![r].unsafeReader = res.pos, ![r].symlinks = res.symlinks]
         /\ log' = [log EXCEPT ![r] = @ \o res.steps]
         /\ ret' = [ret EXCEPT ![r] = [h |-> res.h, err |-> res.err]]
  /\ rd' = [rd EXCEPT ![r] = 0]
  /\ lastOp' = [op |-> "Next", r |-> r, arg |-> 0]
  /\ UNCHANGED <<platform, sanVars, live, host, sets, zipVars>>

\* Reader.Read that counts the entries yielded so far to find its entry
ReadCountingYields(r) ==
  /\ r \in live
  /\ rd' = [rd EXCEPT ![r] =
              unsafeRead(host[r],
                         Cardinality({k \in 1..Len(log[r]) : log[r][k].verdict = "yield"}),
                         ret[r].err)]
  /\ lastOp' = [op |-> "Read", r |-> r, arg |-> 0]
  /\ UNCHANGED <<platform, sanVars, live, host, tr, log, ret, sets, zipVars>>

\* Reader.Read
Read(r) ==
  /\ r \in live
  /\ rd' = [rd EXCEPT ![r] = unsafeRead(host[r], tr[r].unsafeReader, ret[r].err)]
  /\ lastOp' = [op |-> "Read", r |-> r, arg |-> 0]
  /\ UNCHANGED <<platform, sanVars, live, host, tr, log, ret, sets, zipVars>>

\* ------------------------------------------------------------------------
\* State machine: a zip reader
\* ------------------------------------------------------------------------

\* the entries zip archives are built from, before they get their offset
ZipEntries ==
  { ZipFile(<<".", ".", "/", "t">>, "unix", UnixMode("REG", {}, 420), {}, 0),
    ZipFile(<<"/", "a">>, "unix", UnixMode("REG", {"ISUID", "ISGID"}, 416), {}, 0),
    ZipFile(<<"a">>, "unix", UnixMode("LNK", {}, 511), {}, 0),
    ZipFile(<<"a", "/">>, "unix", UnixMode("LNK", {"ISVTX"}, 511), {}, 0),
    ZipFile(<<"a", "/", "b">>, "unix", UnixMode("REG", {}, 420), {}, 0),
    ZipFile(<<"c">>, "unix", UnixMode("FIFO", {}, 420), {}, 0),
    ZipFile(<<"d", "/">>, "fat", UnixMode("REG", {}, 0), {"msdosDir", "msdosReadOnly"}, 0) }

\* the file lists the host decoder (archive/zip) produces: entry i lies at offset i
ZipArchives ==
  { [i \in 1..Len(e) |-> [e[i] EXCEPT !.headerOffset = i]] :
      e \in UNION {[1..n -> ZipEntries] : n \in 0..MaxZipEntries} }

\* the modes given to the zip SetSecurityMode
ZipModes ==
  { 0,
    ZipDefaultSecurityMode,
    ZipPreventSymlinkTraversal,
    ZipDefaultSecurityMode + ZipSanitizeFileMode,
    ZipMaximumSecurityMode }

ZipIdle ==
  /\ zipArchive = <<>>
  /\ zr = [originalFiles |-> <<>>, File |-> <<>>, securityMode |-> 0, closed |-> TRUE]

\* zip.NewReader / zip.OpenReader over the archive a
ZipNewReader(os, a) ==
  [originalFiles |-> a, File |-> applyMagic(os, a, ZipDefaultSecurityMode),
   securityMode |-> ZipDefaultSecurityMode, closed |-> FALSE]

\* (zip) Reader.SetSecurityMode that filters the list currently shown
ZipSetSecurityModeInPlace(sm) ==
  /\ ~zr.closed
  /\ zr' = [zr EXCEPT !.File = applyMagic(platform, zr.File, sm),
                      !.securityMode = sm]
  /\ lastOp' = [op |-> "ZipSetSecurityMode", r |-> 0, arg |-> sm]
  /\ UNCHANGED <<platform, sanVars, tarVars, zipArchive>>

\* (zip) Reader.SetSecurityMode
ZipSetSecurityMode(sm) ==
  /\ ~zr.closed
  /\ zr' = [zr EXCEPT !.File = applyMagic(platform, zr.originalFiles, sm),
                      !.securityMode = sm]
  /\ lastOp' = [op |-> "ZipSetSecurityMode", r |-> 0, arg |-> sm]
  /\ UNCHANGED <<platform, sanVars, tarVars, zipArchive>>

\* (zip) Reader.GetSecurityMode
ZipGetSecurityMode == zr.securityMode

\* ReadCloser.Close
ZipClose ==
  /\ ~zr.closed
  /\ zr' = [zr EXCEPT !.originalFiles = <<>>, !.closed = TRUE]
  /\ lastOp' = [op |-> "ZipClose", r |-> 0, arg |-> 0]
  /\ UNCHANGED <<platform, sanVars, tarVars, zipArchive>>

\* ------------------------------------------------------------------------
\* Specifications
\* ------------------------------------------------------------------------

\* one tar reader over an archive
InitTar ==
  /\ platform \in Platforms
  /\ SanIdle
  /\ live = {1}
  /\ host \in {[r \in Readers |-> IF r = 1 THEN a ELSE EmptyArchive] :
                 a \in Archives(MaxEntries, TarEntries)}
  /\ tr = [r \in Readers |-> NewReader(platform)]
  /\ log = [r \in Readers |-> <<>>]
  /\ ret = [r \in Readers |-> NoReturn]
  /\ sets = [r \in Readers |-> 0]
  /\ rd = [r \in Readers |-> 0]
  /\ ZipIdle
  /\ lastOp = NoOp

\* one zip reader over an archive
InitZip ==
  /\ platform \in Platforms
  /\ SanIdle
  /\ TarIdle
  /\ zipArchive \in ZipArchives
  /\ zr = ZipNewReader(platform, zipArchive)
  /\ lastOp = NoOp

TarStep == \E r \in Readers : Next(r) \/ Read(r) \/ \E s \in TarModes : SetSecurityMode(r, s)

ZipStep == ZipClose \/ \E sm \in ZipModes : ZipSetSecurityMode(sm)

\* a program that reads one archive, tar or zip
Init == InitTar \/ InitZip

Spec == Init /\ [][TarStep \/ ZipStep]_vars

\* the headers and modes of the archives two tar readers read side by side
PairEntries ==
  { Header(<<"a">>, <<"/">>, TypeSymlink, 511, EmptyMap, EmptyMap),
    Header(<<".", ".", "/", "a">>, <<>>, TypeReg, 1444, EmptyMap, EmptyMap) }

PairArchives ==
  { [entries |-> e, end |-> "EOF"] :
      e \in UNION {[1..n -> PairEntries] : n \in 0..MaxPairEntries} }

PairModes == {0, SanitizeFilenames + PreventSymlinkTraversal}

\* two tar readers, each over its own archive, each with its mode already set
InitPairTar ==
  /\ platform \in Platforms
  /\ SanIdle
  /\ live = Readers
  /\ host \in [Readers -> PairArchives]
  /\ tr \in {[r \in Readers |-> [NewReader(platform) EXCEPT !.securityMode = m[r]]] :
               m \in [Readers -> PairModes]}
  /\ log = [r \in Readers |-> <<>>]
  /\ ret = [r \in Readers |-> NoReturn]
  /\ sets = [r \in Readers |-> MaxModeSets]
  /\ rd = [r \in Readers |-> 0]
  /\ ZipIdle
  /\ lastOp = NoOp

\* readers of archives whose mode stays as it is while they are read: two
\* tar readers side by side, or a zip reader
InitPair == InitPairTar \/ InitZip

PairStep == (\E r \in Readers : Next(r)) \/ (\E sm \in ZipModes : ZipSetSecurityMode(sm))

SpecPair == InitPair /\ [][PairStep]_vars

\* two tar readers as NewReader made them, each over its own archive
InitInterleave ==
  /\ platform \in Platforms
  /\ SanIdle
  /\ live = Readers
  /\ host \in [Readers -> PairArchives]
  /\ tr = [r \in Readers |-> NewReader(platform)]
  /\ log = [r \in Readers |-> <<>>]
  /\ ret = [r \in Readers |-> NoReturn]
  /\ sets = [r \in Readers |-> 0]
  /\ rd = [r \in Readers |-> 0]
  /\ ZipIdle
  /\ lastOp = NoOp

InterleaveStep ==
  \E r \in Readers : Next(r) \/ Read(r) \/ \E s \in PairModes : SetSecurityMode(r, s)

\* the calls on two tar readers in any order
SpecInterleave == InitInterleave /\ [][InterleaveStep]_vars

\* one run of the sanitizer on one input
InitSanitizer ==
  /\ platform \in Platforms
  /\ sIn \in SanInputs
  /\ sStage = "input"
  /\ sOut = <<>> /\ sTwice = <<>> /\ sBase = <<>> /\ sJoined = <<>>
  /\ TarIdle
  /\ ZipIdle
  /\ lastOp = NoOp

SanitizerStep == Sanitize \/ Resanitize \/ \E b \in Bases(platform) : JoinBase(b)

SpecSanitizer == InitSanitizer /\ [][SanitizerStep]_vars

\* ------------------------------------------------------------------------
\* Properties
\* ------------------------------------------------------------------------

\* the entries reader r has yielded so far, oldest first
RECURSIVE Yields(_)
Yields(steps) ==
  IF steps = <<>> THEN <<>>
  ELSE IF steps[1].verdict = "yield" THEN <<steps[1]>> \o Yields(Tail(steps))
  ELSE Yields(Tail(steps))

\* a name in sanitized form with one trailing separator removed
SanitizedForm(os, name) == TrimSuffix(SanitizePath(os, name), PathSeparator(os))

\* the prefixes of a path, component by component, the whole path included
PathPrefixes(os, path) ==
  LET n == Split(path, PathSeparator(os))
  IN  {Join(SubSeq(n, 1, i), PathSeparator(os)) : i \in 1..Len(n)}

\* name lies at or beneath link
Beneath(os, name, link) == SanitizedForm(os, link) \in PathPrefixes(os, SanitizedForm(os, name))

\* every header of the scan of reader r was filtered with all of flags set
ScanUnder(r, flags) ==
  \A k \in 1..Len(log[r]) : \A f \in flags : HasFlag(log[r][k].mode, f)

\* C1: with SanitizeFilenames and PreventSymlinkTraversal set for the whole
\* scan, once a link entry L was emitted no later emitted entry has a path
\* prefix (the whole path included) equal to L's name, both in sanitized
\* form with one trailing separator removed; tar and zip.
SymlinkFilterSoundness ==
  /\ \A r \in live :
       ScanUnder(r, {SanitizeFilenames, PreventSymlinkTraversal}) =>
         LET y == Yields(log[r])
         IN  \A i \in 1..Len(y) : \A j \in (i + 1)..Len(y) :
               y[i].h.Linkname # <<>> => ~Beneath(platform, y[j].h.Name, y[i].h.Name)
  /\ (~zr.closed /\ HasFlag(zr.securityMode, ZipSanitizeFilenames)
        /\ HasFlag(zr.securityMode, ZipPreventSymlinkTraversal)) =>
       \A i \in 1..Len(zr.File) : \A j \in (i + 1)..Len(zr.File) :
         "ModeSymlink" \in Mode(zr.File[i]).bits =>
           ~Beneath(platform, zr.File[j].Name, zr.File[i].Name)

\* the components of a path, split at both kinds of separator
Components(s) == Split(ReplaceBytes(s, {"\\"}, "/"), "/")

\* path is base itself or lies strictly beneath it
ContainedIn(os, path, base) ==
  \/ path = base
  \/ /\ Len(path) > Len(base) + 1
     /\ Take(path, Len(base) + 1) = Append(base, PathSeparator(os))

\* C2: joining any base directory with Sanitize(p) and normalizing yields
\* the base itself when Sanitize(p) is empty and a strict descendant of the
\* base otherwise, never a path outside the base.
Containment ==
  sStage = "joined" =>
    /\ ContainedIn(platform, sJoined, sBase)
    /\ (sOut = <<>> <=> sJoined = sBase)

\* C3: no path component of Sanitize(p) is "..", on the POSIX and on the
\* Windows variant.
NoDotDot ==
  sStage \in {"sanitized", "resanitized", "joined"} =>
    \A k \in 1..Len(Components(sOut)) : Components(sOut)[k] # <<".", ".">>

\* C3 on the POSIX variant
NoDotDotPosix == platform = "posix" => NoDotDot

\* C2 on the POSIX variant
ContainmentPosix == platform = "posix" => Containment

Letters == {"a", "b", "c", "s", "t", "f", "p"} \cup DOMAIN LowerOf

\* C4: Sanitize(p) begins with neither a forward slash nor a backslash, and
\* on the Windows variant not with a letter followed by a colon.
Unrooted ==
  sStage \in {"sanitized", "resanitized", "joined"} =>
    /\ (sOut # <<>> => sOut[1] \notin {"/", "\\"})
    /\ (platform = "windows" /\ Len(sOut) >= 2 => ~(sOut[1] \in Letters /\ sOut[2] = ":"))

\* an input that is rooted, or names a drive, came out of the sanitizer non-empty
UnrootedWitness ==
  /\ sStage = "sanitized"
  /\ platform = "windows"
  /\ Len(sIn) >= 3 /\ sIn[1] = "a" /\ sIn[2] = ":" /\ sIn[3] = "\\"
  /\ sOut # <<>>

\* the input ends with a separator
EndsWithSeparator(s) == Len(s) > 0 /\ s[Len(s)] \in {"/", "\\"}

\* C5: for an input that ends with '/' or '\', a non-empty Sanitize(p) ends
\* with the platform separator; when the sanitized core is empty the result
\* is the empty string.
TrailingSeparatorPreserved ==
  sStage \in {"sanitized", "resanitized", "joined"} =>
    /\ (EndsWithSeparator(sIn) /\ sOut # <<>> => sOut[Len(sOut)] = PathSeparator(platform))
    /\ (sanitizePath(platform, sIn) = <<>> => sOut = <<>>)
    /\ (EndsWithSeparator(sIn) /\ sanitizePath(platform, sIn) # <<>> =>
          sOut = Append(sanitizePath(platform, sIn), PathSeparator(platform)))

\* a directory input kept its separator, and a bare "../" came out empty
TrailingSeparatorWitness ==
  /\ sStage = "sanitized"
  /\ EndsWithSeparator(sIn)
  /\ Len(sOut) >= 2
  /\ sOut[Len(sOut)] = PathSeparator(platform)

\* C6: on the POSIX variant Sanitize(Sanitize(p)) = Sanitize(p), also for
\* inputs with a trailing separator and inputs that sanitize to "".
Idempotence ==
  (platform = "posix" /\ sStage = "resanitized") => sTwice = sOut

\* an input that the sanitizer changed, with a trailing separator, was sanitized twice
IdempotenceWitness ==
  /\ platform = "posix"
  /\ sStage = "resanitized"
  /\ EndsWithSeparator(sIn)
  /\ sOut # sIn
  /\ sOut # <<>>

\* the list of a zip reader holds, in order, entries of its archive
ZipSubsequence ==
  \A i \in 1..Len(zr.File) :
    LET o == zr.File[i].headerOffset
    IN  /\ o \in 1..Len(zipArchive)
        /\ i < Len(zr.File) => o < zr.File[i + 1].headerOffset
        /\ zr.File[i].Name \in {zipArchive[o].Name, SanitizePath(platform, zipArchive[o].Name)}

\* the headers reader r yields are, in order, headers of its archive
Subsequence(r) ==
  LET y == Yields(log[r])
      e == host[r].entries
  IN  /\ \A k \in 1..Len(log[r]) : log[r][k].idx = k /\ k <= Len(e)
      /\ \A i \in 1..Len(y) :
           /\ i < Len(y) => y[i].idx < y[i + 1].idx
           /\ y[i].h.Linkname = e[y[i].idx].Linkname
           /\ y[i].h.Typeflag = e[y[i].idx].Typeflag
           /\ y[i].h.Name \in {e[y[i].idx].Name, SanitizePath(platform, e[y[i].idx].Name)}

\* C7: for a fixed mode the yielded entries are a subsequence of the host
\* decoder's sequence (same order, each host entry at most once, none
\* invented), and two readers with the same mode over the same header
\* sequence treat every header alike, however their calls interleave; the
\* File list of a zip reader is likewise a subsequence of the archive's
\* entries and a function of the mode and the archive alone.
DeterministicSubsequence ==
  /\ \A r \in live : Subsequence(r)
  /\ ZipSubsequence
  /\ ~zr.closed => zr.File = applyMagic(platform, zipArchive, zr.securityMode)
  /\ \A k \in 1..Len(log[1]) :
       ( /\ k <= Len(log[2])
         /\ SubSeq(host[1].entries, 1, k) = SubSeq(host[2].entries, 1, k)
         /\ tr[1].securityMode = tr[2].securityMode )
       => log[1][k] = log[2][k]

\* two readers with the same mode finished the same two-entry archive, of
\* which one entry was dropped
DeterministicSubsequenceWitness ==
  /\ live = Readers
  /\ host[1] = host[2]
  /\ tr[1].securityMode = tr[2].securityMode
  /\ ret[1].err = "EOF" /\ ret[2].err = "EOF"
  /\ Len(log[1]) = 2 /\ log[1] = log[2]
  /\ Len(Yields(log[1])) = 1
  /\ log[1][2].verdict = "traversal"

\* C8: after any sequence of SetSecurityMode calls on an open zip reader the
\* File list is the filter applied to the original entries under the last
\* mode alone, and the original entries are never modified.
ZipSetSecurityModeReversible ==
  ~zr.closed =>
    /\ zr.originalFiles = zipArchive
    /\ zr.File = applyMagic(platform, zipArchive, ZipGetSecurityMode)
    /\ (lastOp.op = "ZipSetSecurityMode" => ZipGetSecurityMode = lastOp.arg)

\* Default without SanitizeFilenames was set on a reader opened in Default
\* mode, and the raw name "../t" is back in the list
ZipSetSecurityModeReversibleWitness ==
  /\ ~zr.closed
  /\ lastOp.op = "ZipSetSecurityMode"
  /\ zr.securityMode = ZipDefaultSecurityMode - ZipSanitizeFilenames
  /\ \E i \in 1..Len(zr.File) : zr.File[i].Name = <<".", ".", "/", "t">>
  /\ \E i \in 1..Len(zr.File) : zr.File[i].Name = <<"/", "a">>

\* C9: the tar SetSecurityMode(m) changes only the reader's mode (symlink
\* set, decoder position and the headers already returned stay as they
\* are), GetSecurityMode then returns m, and the entries a later Next
\* consumes are filtered under the mode current at that call.
SetSecurityModeFrame ==
  [][ /\ sets' # sets =>
           \E r \in Readers :
               /\ lastOp' = [op |-> "SetSecurityMode", r |-> r, arg |-> lastOp'.arg]
               /\ GetSecurityMode(r)' = lastOp'.arg
               /\ tr' = [tr EXCEPT ![r].securityMode = lastOp'.arg]
               /\ log' = log /\ ret' = ret /\ host' = host
      /\ \A r \in Readers :
           log'[r] # log[r] =>
             /\ SubSeq(log'[r], 1, Len(log[r])) = log[r]
             /\ \A k \in (Len(log[r]) + 1)..Len(log'[r]) :
                  log'[r][k].mode = GetSecurityMode(r)
    ]_vars

\* SetSecurityMode was called on a reader that had recorded a link, and a
\* later Next filtered an entry under the new mode
SetSecurityModeFrameWitness ==
  \E r \in live :
    /\ sets[r] > 0
    /\ tr[r].symlinks # {}
    /\ Len(log[r]) = 2
    /\ log[r][1].mode # log[r][2].mode
    /\ log[r][2].mode = tr[r].securityMode

SafeTypes == {TypeReg, TypeDir, TypeSymlink}

\* C10: with SkipSpecialFiles set every yielded tar entry is a regular file,
\* a directory or a symbolic link and every other type is dropped; with the
\* flag clear no entry is dropped on account of its type.
SkipSpecialFilesFilter ==
  \A r \in live : \A k \in 1..Len(log[r]) :
    LET s == log[r][k]
        t == host[r].entries[s.idx].Typeflag
    IN  IF HasFlag(s.mode, SkipSpecialFiles)
        THEN /\ s.verdict = "yield" => t \in SafeTypes
             /\ t \notin SafeTypes => s.verdict = "special"
        ELSE /\ s.verdict # "special"
             /\ s.mode = 0 => s.verdict = "yield"

\* a hard link was yielded with the flag clear and dropped with the flag set
SkipSpecialFilesFilterWitness ==
  \E r \in live : \E i, j \in 1..Len(log[r]) :
    /\ host[r].entries[i].Typeflag = TypeLink
    /\ ~HasFlag(log[r][i].mode, SkipSpecialFiles) /\ log[r][i].verdict = "yield"
    /\ host[r].entries[j].Typeflag = TypeLink
    /\ HasFlag(log[r][j].mode, SkipSpecialFiles) /\ log[r][j].verdict = "special"

\* C11: with SanitizeFileMode set every yielded tar header has the host's
\* mode AND 0777 (all bits above the low nine cleared, the low nine kept);
\* with the flag clear the mode is the host's.
FileModeMasked ==
  \A r \in live : \A k \in 1..Len(log[r]) :
    LET s == log[r][k]
        m == host[r].entries[s.idx].Mode
    IN  s.verdict = "yield" =>
          IF HasFlag(s.mode, SanitizeFileMode)
          THEN s.h.Mode \in 0..511 /\ (m - s.h.Mode) % 512 = 0
          ELSE s.h.Mode = m

\* a header with setuid and a file-type bit was yielded with the flag set,
\* and one with the flag clear
FileModeMaskedWitness ==
  \E r \in live : \E i, j \in 1..Len(log[r]) :
    /\ log[r][i].verdict = "yield" /\ HasFlag(log[r][i].mode, SanitizeFileMode)
    /\ host[r].entries[i].Mode = 35309 /\ log[r][i].h.Mode = 493
    /\ log[r][j].verdict = "yield" /\ ~HasFlag(log[r][j].mode, SanitizeFileMode)
    /\ host[r].entries[j].Mode = 35309 /\ log[r][j].h.Mode = 35309

\* the mode bits SanitizeFileMode clears in a zip entry
ZipClearedBits ==
  {"ModeTemporary", "ModeAppend", "ModeExclusive", "ModeSetuid", "ModeSetgid", "ModeSticky"}

\* the listed entry f shows the directory bit and the permission bits of the
\* archive's entry o, and none of the cleared bits
ZipModeSanitizedOf(f, o) ==
  /\ Mode(f).bits \cap ZipClearedBits = {}
  /\ ("ModeDir" \in Mode(f).bits) = ("ModeDir" \in Mode(o).bits)
  /\ Mode(f).perm = Mode(o).perm

\* the zip list under the current mode against the archive: modes sanitized
\* when the flag is set, the same entries under the same names as without
\* the flag, and the archive's mode fields when the flag is clear
ZipFileModeSanitizedOn(os) ==
  (platform = os /\ ~zr.closed) =>
    /\ \A i \in 1..Len(zr.File) :
         LET f == zr.File[i]
             o == zipArchive[f.headerOffset]
         IN  IF HasFlag(zr.securityMode, ZipSanitizeFileMode)
             THEN ZipModeSanitizedOf(f, o)
             ELSE f.creator = o.creator /\ f.unix = o.unix /\ f.msdos = o.msdos
    /\ HasFlag(zr.securityMode, ZipSanitizeFileMode) =>
         LET without == applyMagic(platform, zipArchive,
                                   zr.securityMode - ZipSanitizeFileMode)
         IN  /\ Len(zr.File) = Len(without)
             /\ \A i \in 1..Len(without) :
                  /\ zr.File[i].Name = without[i].Name
                  /\ zr.File[i].headerOffset = without[i].headerOffset

\* C12: with SanitizeFileMode set on a zip reader every listed entry has the
\* temporary, append, exclusive, setuid, setgid and sticky bits cleared and
\* the directory bit and permission bits of the original entry; the flag
\* removes no entry and changes no name; with the flag off again the
\* original modes show.
ZipFileModeSanitized == ZipFileModeSanitizedOn("posix") /\ ZipFileModeSanitizedOn("windows")

\* the same on the POSIX build alone
ZipFileModeSanitizedPosix == ZipFileModeSanitizedOn("posix")

\* C13: with DropXattrs set every yielded tar header has no extended
\* attributes and its PAX records are exactly the host's records whose key
\* is, case-sensitively, one of ctime, mtime, atime, values unchanged; with
\* the flag clear both maps are the host's.
XattrsDropped ==
  \A r \in live : \A k \in 1..Len(log[r]) :
    LET s == log[r][k]
        o == host[r].entries[s.idx]
    IN  s.verdict = "yield" =>
          IF HasFlag(s.mode, DropXattrs)
          THEN /\ s.h.Xattrs = EmptyMap
               /\ DOMAIN s.h.PAXRecords = DOMAIN o.PAXRecords \cap {"ctime", "mtime", "atime"}
               /\ \A key \in DOMAIN s.h.PAXRecords : s.h.PAXRecords[key] = o.PAXRecords[key]
          ELSE s.h.Xattrs = o.Xattrs /\ s.h.PAXRecords = o.PAXRecords

\* a header with an attribute and the records mtime, MTIME and an attribute
\* record was yielded with the flag set, keeping mtime alone, and with the
\* flag clear, keeping all
XattrsDroppedWitness ==
  \E r \in live : \E i, j \in 1..Len(log[r]) :
    /\ log[r][i].verdict = "yield" /\ HasFlag(log[r][i].mode, DropXattrs)
    /\ DOMAIN host[r].entries[i].PAXRecords = {"mtime", "SCHILY.xattr.user.x", "MTIME"}
    /\ DOMAIN log[r][i].h.PAXRecords = {"mtime"}
    /\ log[r][j].verdict = "yield" /\ ~HasFlag(log[r][j].mode, DropXattrs)
    /\ DOMAIN log[r][j].h.Xattrs = {"user.x"}
    /\ DOMAIN log[r][j].h.PAXRecords = {"mtime", "SCHILY.xattr.user.x", "MTIME"}

\* name lies at or beneath link when letter case is ignored
BeneathFold(os, name, link) ==
  ToLower(SanitizedForm(os, link)) \in PathPrefixes(os, ToLower(SanitizedForm(os, name)))

\* on the build os: in a scan with both flags set throughout, no entry is
\* yielded at or beneath a link yielded before it, letter case ignored
CaseInsensitiveFilterOn(os) ==
  \A r \in live :
    ( /\ platform = os
      /\ ScanUnder(r, {PreventSymlinkTraversal, PreventCaseInsensitiveSymlinkTraversal}) )
    => LET y == Yields(log[r])
           e == host[r].entries
       IN  \A i \in 1..Len(y) : \A j \in (i + 1)..Len(y) :
             y[i].h.Linkname # <<>> => ~BeneathFold(os, e[y[j].idx].Name, e[y[i].idx].Name)

\* C14: in the tar reader with PreventSymlinkTraversal and
\* PreventCaseInsensitiveSymlinkTraversal set for the whole scan, an entry
\* is dropped whenever some prefix of its path equals, ignoring letter case,
\* the name of a link emitted earlier.
CaseInsensitiveFilter == CaseInsensitiveFilterOn("posix") /\ CaseInsensitiveFilterOn("windows")

\* the same on the POSIX build alone
CaseInsensitiveFilterPosix == CaseInsensitiveFilterOn("posix")

\* on POSIX the link "a" was yielded and "A/b" after it was dropped by the
\* prefix walk
CaseInsensitiveFilterPosixWitness ==
  \E r \in live :
    /\ platform = "posix"
    /\ Len(log[r]) = 2
    /\ HasFlag(log[r][1].mode, PreventCaseInsensitiveSymlinkTraversal)
    /\ HasFlag(log[r][2].mode, PreventCaseInsensitiveSymlinkTraversal)
    /\ host[r].entries[1].Name = <<"a">> /\ log[r][1].verdict = "yield"
    /\ host[r].entries[2].Name = <<"A", "/", "b">> /\ log[r][2].verdict = "traversal"

\* name holds a tilde immediately followed by an ASCII digit
TildeDigit(name) ==
  \E i \in 1..(Len(name) - 1) :
    name[i] = "~" /\ name[i + 1] \in {"0", "1", "2", "3", "4", "5", "6", "7", "8", "9"}

\* C15: with SkipWindowsShortFilenames set the tar reader drops exactly the
\* entries whose name (sanitized when SanitizeFilenames is set) has a
\* component holding a tilde immediately followed by a digit; with the flag
\* clear no entry is dropped for its name.
ShortFilenamesSkipped ==
  \A r \in live : \A k \in 1..Len(log[r]) :
    LET s == log[r][k]
        o == host[r].entries[s.idx]
        name == IF HasFlag(s.mode, SanitizeFilenames)
                THEN SanitizePath(platform, o.Name) ELSE o.Name
    IN  IF HasFlag(s.mode, SkipWindowsShortFilenames)
        THEN /\ s.verdict = "short" => s.h.Name = name /\ TildeDigit(name)
             /\ s.verdict \in {"yield", "traversal"} => s.h.Name = name /\ ~TildeDigit(name)
        ELSE s.verdict # "short"

\* with the flag set "b~1" was dropped for its name and "c~" was yielded
ShortFilenamesSkippedWitness ==
  \E r \in live : \E i, j \in 1..Len(log[r]) :
    /\ HasFlag(log[r][i].mode, SkipWindowsShortFilenames)
    /\ log[r][i].verdict = "short" /\ log[r][i].h.Name = <<"b", "~", "1">>
    /\ HasFlag(log[r][j].mode, SkipWindowsShortFilenames)
    /\ log[r][j].verdict = "yield" /\ log[r][j].h.Name = <<"c", "~">>

\* the reserved device names of Windows, in upper case
DeviceNames ==
  { <<"C", "O", "N">>, <<"P", "R", "N">>, <<"A", "U", "X">>, <<"N", "U", "L">>,
    <<"C", "O", "N", "I", "N", "$">>, <<"C", "O", "N", "O", "U", "T", "$">> }
  \cup { dev \o n :
           dev \in {<<"C", "O", "M">>, <<"L", "P", "T">>},
           n \in {<<d>> : d \in {"1", "2", "3", "4", "5", "6", "7", "8", "9"}}
                   \cup {<<"xC2", "xB9">>, <<"xC2", "xB2">>, <<"xC2", "xB3">>} }

RECURSIVE TrimRightSpaces(_)
\* s without its trailing spaces
TrimRightSpaces(s) ==
  IF Len(s) > 0 /\ s[Len(s)] = " " THEN TrimRightSpaces(Take(s, Len(s) - 1)) ELSE s

\* base is a device name, in any letter case, optionally followed by spaces
ReservedBase(base) == ToUpper(TrimRightSpaces(base)) \in DeviceNames

\* the text of a component before its first '.', and the text after it
BaseOf(part) == Cut(part, ".")[1]

ExtOf(part) == Cut(part, ".")[2]

\* the path the Windows sanitizer hands to its reserved-name loop
WinCleaned(in) ==
  Clean("windows",
        TrimLeft(Clean("windows", <<"\\">> \o ReplaceBytes(in, {":", "/", "?"}, "\\")), "\\"))

\* the output of the sanitizer without the separator SanitizePath adds back
WinCore(in, out) ==
  IF EndsWithSeparator(in) /\ Len(out) > 0 /\ out[Len(out)] = "\\"
  THEN Take(out, Len(out) - 1) ELSE out

\* C16: in the output of the Windows sanitizer every component whose base is
\* a reserved device name has "-safe" appended to the base, the extension
\* kept after it; a component whose base is not reserved gets no suffix; no
\* component of the output has a reserved base.
ReservedNameGuard ==
  (platform = "windows" /\ sStage \in {"sanitized", "resanitized", "joined"}) =>
    LET before == Split(WinCleaned(sIn), "\\")
        after == Split(WinCore(sIn, sOut), "\\")
    IN  /\ Len(after) = Len(before)
        /\ \A k \in 1..Len(before) :
             /\ BaseOf(after[k]) =
                  BaseOf(before[k]) \o (IF ReservedBase(BaseOf(before[k]))
                                        THEN <<"-", "s", "a", "f", "e">> ELSE <<>>)
             /\ ExtOf(after[k]) = ExtOf(before[k])
             /\ ~ReservedBase(BaseOf(after[k]))

\* "s\LPT1 .f" came out as "s\LPT1 -safe.f"
ReservedNameGuardWitness ==
  /\ platform = "windows"
  /\ sStage = "sanitized"
  /\ sIn = <<"s", "\\", "L", "P", "T", "1", " ", ".", "f">>
  /\ sOut = <<"s", "\\", "L", "P", "T", "1", " ", "-", "s", "a", "f", "e", ".", "f">>

\* what the Windows sanitizer is expected to make of the drive-letter, UNC,
\* NT-prefix and alternate-data-stream paths
WinExpected ==
  { <<<<"C", ":", "\\", "s", "\\", "t">>, <<"C", "\\", "s", "\\", "t">>>>,
    <<<<"\\", "\\", ".", "\\", "C", ":", "\\", "s">>, <<"C", "\\", "s">>>>,
    <<<<"\\", "?", "?", "\\", "C", ":", "\\", "s">>, <<"C", "\\", "s">>>>,
    <<<<"\\", "\\", "F", "S", "\\", "s", "\\", "t">>, <<"F", "S", "\\", "s", "\\", "t">>>>,
    <<<<"s", ".", "t", ":", "a">>, <<"s", ".", "t", "\\", "a">>>> }

\* C17: the Windows sanitizer treats ':', '/' and '?' as separators and
\* strips the leading separators: its output holds none of the three bytes,
\* does not start with a separator, is (the restored trailing separator
\* aside) the output for the same path written with '\' in their place, and the drive-letter, UNC, NT-prefix and
\* alternate-data-stream paths come out as the plain relative paths expected.
WindowsSeparators ==
  (platform = "windows" /\ sStage \in {"sanitized", "resanitized", "joined"}) =>
    /\ \A i \in 1..Len(sOut) : sOut[i] \notin {":", "/", "?"}
    /\ (Len(sOut) > 0 => sOut[1] # "\\")
    /\ WinCore(sIn, sOut) = sanitizePath("windows", ReplaceBytes(sIn, {":", "/", "?"}, "\\"))
    /\ \A e \in WinExpected : sIn = e[1] => sOut = e[2]

\* the NT-prefix path "\??\C:\s" came out as "C\s"
WindowsSeparatorsWitness ==
  /\ platform = "windows"
  /\ sStage = "sanitized"
  /\ sIn = <<"\\", "?", "?", "\\", "C", ":", "\\", "s">>
  /\ sOut = <<"C", "\\", "s">>

\* C18: a call of the tar Next in which the host decoder returns an error
\* or io.EOF returns exactly that result (no header, the decoder's error),
\* leaves the symlink set and the security mode as they were and yields no
\* entry; when the decoder is at its end already, nothing is filtered and
\* the reader does not change at all.
HostEndPassedOn ==
  [][ \A r \in Readers :
        (lastOp' = [op |-> "Next", r |-> r, arg |-> 0] /\ ret'[r].err # "nil") =>
          /\ ret'[r] = [h |-> NoHeader, err |-> host[r].end]
          /\ tr'[r].symlinks = tr[r].symlinks
          /\ tr'[r].securityMode = tr[r].securityMode
          /\ \A k \in (Len(log[r]) + 1)..Len(log'[r]) : log'[r][k].verdict # "yield"
          /\ tr[r].unsafeReader = Len(host[r].entries) => (log' = log /\ tr' = tr)
    ]_vars

\* Next returned the decoding error of the host decoder on a reader that had
\* yielded a link before
HostEndPassedOnWitness ==
  /\ lastOp = [op |-> "Next", r |-> 1, arg |-> 0]
  /\ ret[1] = [h |-> NoHeader, err |-> "ErrHeader"]
  /\ host[1].end = "ErrHeader"
  /\ Len(host[1].entries) = 2
  /\ tr[1].unsafeReader = 2
  /\ tr[1].symlinks # {}

\* C20: after the tar Next has yielded an entry E, Read delivers bytes of E
\* and of no other entry: the host decoder stands on the entry yielded,
\* however many entries the same or earlier calls dropped before it.
ReadDeliversYielded ==
  \A r \in live :
    (lastOp = [op |-> "Read", r |-> r, arg |-> 0] /\ ret[r].err = "nil") =>
      /\ Len(log[r]) > 0
      /\ LET last == log[r][Len(log[r])]
         IN  /\ last.verdict = "yield"
             /\ ret[r].h = last.h
             /\ tr[r].unsafeReader = last.idx
             /\ rd[r] \in {0, last.idx}
             /\ host[r].entries[last.idx].Typeflag = TypeReg => rd[r] = last.idx

\* Read delivered the bytes of the second entry, yielded after the first
\* entry had been dropped
ReadDeliversYieldedWitness ==
  /\ lastOp = [op |-> "Read", r |-> 1, arg |-> 0]
  /\ ret[1].err = "nil"
  /\ Len(log[1]) = 2
  /\ log[1][1].verdict # "yield"
  /\ log[1][2].verdict = "yield"
  /\ rd[1] = 2

RECURSIVE ReplayAlone(_, _, _)
\* the records k.. of log[r] are what the filters make of reader r's own
\* archive, under the modes the records carry, starting from the symlink
\* set given, and end in the symlink set the reader holds
ReplayAlone(r, k, symlinks) ==
  IF k > Len(log[r])
  THEN symlinks = tr[r].symlinks
  ELSE LET match(s, f) ==
             /\ s.idx = k
             /\ s.verdict = f.verdict
             /\ s.h = f.h
             /\ ReplayAlone(r, k + 1, f.symlinks)
       IN  /\ k <= Len(host[r].entries)
           /\ match(log[r][k],
                    filterEntry(platform, log[r][k].mode, symlinks, host[r].entries[k]))

\* what reader r has yielded and read is made of its own archive alone
YieldsAlone(r) ==
  /\ ReplayAlone(r, 1, {})
  /\ tr[r].unsafeReader = Len(log[r])
  /\ ret[r].err = "nil" => ret[r].h = log[r][Len(log[r])].h
  /\ rd[r] \in 0..tr[r].unsafeReader

\* a call on one reader leaves the other reader, and what it has yielded
\* and read, as they were
OthersUntouched ==
  \A r \in Readers :
    lastOp'.r = r =>
      \A q \in Readers \ {r} :
        /\ tr'[q] = tr[q] /\ log'[q] = log[q] /\ ret'[q] = ret[q] /\ rd'[q] = rd[q]
        /\ host'[q] = host[q] /\ sets'[q] = sets[q]

\* C19: two tar readers share no mutable state: however their Next, Read and
\* SetSecurityMode calls interleave, a call on one leaves the other as it
\* was, and each yields what the filters make of its own archive under its
\* own modes, so a link recorded by one never makes the other drop an entry.
IndependentReaders == [](\A r \in live : YieldsAlone(r)) /\ [][OthersUntouched]_vars

\* reader 1 yielded the link "a" and reader 2, in Default mode, yielded
\* "../a" (as "a") afterwards
IndependentReadersWitness ==
  /\ live = Readers
  /\ lastOp = [op |-> "Read", r |-> 2, arg |-> 0]
  /\ tr[1].symlinks # {}
  /\ HasFlag(tr[2].securityMode, PreventSymlinkTraversal)
  /\ Len(log[2]) = 1
  /\ host[2].entries[1].Name = <<".", ".", "/", "a">>
  /\ log[2][1].verdict = "yield"
  /\ rd[2] = 1
  /\ sets[1] > 0

\* the keys of the entries reader r yielded under PreventSymlinkTraversal
\* and that satisfy want: the yielded name sanitized, trimmed and folded as
\* the mode of that call asks
YieldedKeys(r, want(_)) ==
  { symlinkKey(platform, log[r][k].mode, log[r][k].h.Name) :
      k \in { i \in 1..Len(log[r]) :
                /\ log[r][i].verdict = "yield"
                /\ HasFlag(log[r][i].mode, PreventSymlinkTraversal)
                /\ want(host[r].entries[log[r][i].idx]) } }

IsSymlink(h) == h.Typeflag = TypeSymlink

HasLinkname(h) == h.Linkname # <<>>

\* C21 as stated: every key of the symlink set is the name of a symbolic
\* link the same reader yielded before; no entry of another type adds a key.
SymlinkKeysFromSymlinks ==
  \A r \in live : tr[r].symlinks \subseteq YieldedKeys(r, IsSymlink)

\* C21 amended: the symlink set of a tar reader holds exactly the keys of
\* the entries the same reader yielded, under PreventSymlinkTraversal, with
\* a link name that is not empty, symbolic links and hard links alike; an
\* entry without a link name adds no key, whatever its type.
SymlinkKeysFromLinknames ==
  \A r \in live : tr[r].symlinks = YieldedKeys(r, HasLinkname)

\* a symbolic link "b" without a link name was yielded and added no key,
\* then the hard link "b" was yielded and added the key "b"
SymlinkKeysFromLinknamesWitness ==
  /\ Len(log[1]) = 2
  /\ log[1][1].verdict = "yield" /\ log[1][2].verdict = "yield"
  /\ host[1].entries[1].Typeflag = TypeSymlink /\ host[1].entries[1].Linkname = <<>>
  /\ host[1].entries[2].Typeflag = TypeLink
  /\ tr[1].symlinks = {<<"b">>}

\* a key in sanitized form: relative, without an empty, "." or ".."
\* component and without a trailing separator
KeySanitized(key) ==
  /\ key # <<>>
  /\ \A i \in 1..Len(Components(key)) :
       Components(key)[i] \notin {<<>>, <<".">>, <<".", ".">>}

TarKeysSanitized ==
  \A r \in live : \A key \in tr[r].symlinks : KeySanitized(key)

TarKeysFolded ==
  \A r \in live :
    HasFlag(tr[r].securityMode, PreventCaseInsensitiveSymlinkTraversal) =>
      \A key \in tr[r].symlinks : key = ToLower(key)

ZipKeysSanitized ==
  ~zr.closed =>
    \A key \in applyMagicSymlinks(platform, zipArchive, zr.securityMode, 1, {}) :
      KeySanitized(key)

\* C22: every key of a reader's symlink set, tar and zip, is in sanitized
\* form (relative, no ".", ".." or empty component, no trailing separator),
\* with SanitizeFilenames set or clear, and is in lower case whenever
\* PreventCaseInsensitiveSymlinkTraversal is set in the reader's current mode.
SymlinkKeysSanitized == TarKeysSanitized /\ TarKeysFolded /\ ZipKeysSanitized

\* the records a step appends to the log of reader r
NewSteps(r) == {k \in 1..Len(log'[r]) : k > Len(log[r])}

SymlinkFilterSurvivesModeChanges ==
  platform = "posix" =>
    \A r \in live :
      ScanUnder(r, {PreventSymlinkTraversal}) =>
        LET y == Yields(log[r])
        IN  \A i \in 1..Len(y) : \A j \in (i + 1)..Len(y) :
              y[i].h.Linkname # <<>> => ~Beneath(platform, y[j].h.Name, y[i].h.Name)

\* C25: on the Windows build, whose sanitizer writes '\' between components,
\* the tar reader in Default mode still drops an entry beneath a link yielded
\* before it (names in sanitized form, letter case included), and records a
\* link named with a trailing separator without that separator.
WindowsSymlinkFilter ==
  platform = "windows" =>
    \A r \in live :
      (\A k \in 1..Len(log[r]) : log[r][k].mode = DefaultSecurityMode("windows")) =>
        /\ LET y == Yields(log[r])
           IN  \A i \in 1..Len(y) : \A j \in (i + 1)..Len(y) :
                 y[i].h.Linkname # <<>> => ~Beneath(platform, y[j].h.Name, y[i].h.Name)
        /\ \A key \in tr[r].symlinks : key[Len(key)] \notin {"/", "\\"}

RECURSIVE TarScanNames(_, _, _, _, _)
\* the names a tar reader yields, in order, from the headers i.. under mode
TarScanNames(os, entries, mode, i, symlinks) ==
  IF i > Len(entries) THEN <<>>
  ELSE LET step(f) ==
             (IF f.verdict = "yield" THEN <<f.h.Name>> ELSE <<>>)
               \o TarScanNames(os, entries, mode, i + 1, f.symlinks)
       IN  step(filterEntry(os, mode, symlinks, entries[i]))

\* the tar headers of the same names as the zip files: a symbolic link for a
\* file with the symlink mode bit, a regular file otherwise
AsTarEntries(files) ==
  [i \in 1..Len(files) |->
     IF "ModeSymlink" \in Mode(files[i]).bits
     THEN Header(files[i].Name, <<"/">>, TypeSymlink, 511, EmptyMap, EmptyMap)
     ELSE Header(files[i].Name, <<>>, TypeReg, 420, EmptyMap, EmptyMap)]

\* the tar mode with the name flags of a zip mode
AsTarMode(sm) ==
  (IF HasFlag(sm, ZipSanitizeFilenames) THEN SanitizeFilenames ELSE 0)
    + (IF HasFlag(sm, ZipPreventSymlinkTraversal) THEN PreventSymlinkTraversal ELSE 0)

\* C26: the zip reader and the tar reader filter by name alike: for the same
\* sequence of entries (name, symbolic link or not) and the same flags among
\* SanitizeFilenames and PreventSymlinkTraversal, the only name flags the zip
\* reader has, both keep the same entries under the same names.
ZipFiltersNamesLikeTar ==
  (~zr.closed /\ zr.securityMode \in {0, ZipPreventSymlinkTraversal, ZipSanitizeFilenames,
                                      ZipDefaultSecurityMode}) =>
    [i \in 1..Len(zr.File) |-> zr.File[i].Name]
      = TarScanNames(platform, AsTarEntries(zipArchive), AsTarMode(zr.securityMode), 1, {})

\* the single components made of a reserved device name, spaces or none,
\* and the two extensions ".t.t"
MultiDotNames ==
  { <<b, sp>> \in DeviceBases \X {<<>>, <<" ">>, <<" ", " ">>} : ReservedBase(b) }

\* C27 as stated: the Windows sanitizer does not detect a reserved device
\* name followed by more than one extension and returns the component
\* without the "-safe" suffix.
MultiDotNotGuarded ==
  (platform = "windows" /\ sStage = "sanitized") =>
    \A n \in MultiDotNames :
      sIn = n[1] \o n[2] \o <<".", "t", ".", "t">> => sOut = sIn

\* C27 amended: the Windows sanitizer cuts a component at its first dot, so a
\* reserved device name followed by several extensions is detected like any
\* other: "-safe" goes after the base and all the extensions are kept.
MultiDotGuarded ==
  (platform = "windows" /\ sStage = "sanitized") =>
    \A n \in MultiDotNames :
      sIn = n[1] \o n[2] \o <<".", "t", ".", "t">> =>
        sOut = n[1] \o n[2] \o <<"-", "s", "a", "f", "e", ".", "t", ".", "t">>

\* "CON.t.t" came out as "CON-safe.t.t"
MultiDotGuardedWitness ==
  /\ platform = "windows"
  /\ sStage = "sanitized"
  /\ sIn = <<"C", "O", "N", ".", "t", ".", "t">>
  /\ sOut = <<"C", "O", "N", "-", "s", "a", "f", "e", ".", "t", ".", "t">>

\* C28: with PreventSymlinkTraversal set, every entry the tar reader yields
\* with the type symbolic link is recorded in the symlink set, its link name
\* empty or not.
YieldedSymlinksRecorded ==
  \A r \in live : YieldedKeys(r, IsSymlink) \subseteq tr[r].symlinks

\* C29: with SanitizeFilenames clear, every entry the tar reader yields has
\* the name the host decoder gave it, byte for byte, also when
\* PreventSymlinkTraversal and PreventCaseInsensitiveSymlinkTraversal are
\* set (the comparison key is a copy); the link name of an entry is never
\* changed, under any mode.
NameKeptWithoutSanitizing ==
  \A r \in live : \A k \in 1..Len(log[r]) :
    LET s == log[r][k]
        e == host[r].entries[s.idx]
    IN  /\ s.h.Linkname = e.Linkname
        /\ (s.verdict = "yield" /\ ~HasFlag(s.mode, SanitizeFilenames)) => s.h.Name = e.Name

\* the link "A/" was yielded under its own name by a reader in the mode
\* PreventSymlinkTraversal with the case-insensitive flag, which recorded
\* the key "a"
NameKeptWithoutSanitizingWitness ==
  /\ Len(log[1]) > 0
  /\ log[1][1].verdict = "yield"
  /\ log[1][1].mode = PreventSymlinkTraversal + PreventCaseInsensitiveSymlinkTraversal
  /\ log[1][1].h.Name = <<"A", "/">>
  /\ log[1][1].h.Linkname = <<"/">>
  /\ platform = "posix"
  /\ tr[1].symlinks = {<<"a">>}

\* C30: a call of the tar Next on a finite archive comes to an end: every
\* iteration of its loop consumes exactly one host entry, so the call
\* returns the first remaining entry that passes the filters, or the end
\* (or error) of the host decoder once the remaining entries are consumed,
\* none of them yielded; once the end has been returned no entry is yielded.
NextTerminates ==
  [][ \A r \in Readers :
        lastOp' = [op |-> "Next", r |-> r, arg |-> 0] =>
          LET pos == tr[r].unsafeReader
              n == Len(host[r].entries)
              new == NewSteps(r)
          IN  /\ Len(log'[r]) - Len(log[r]) = tr'[r].unsafeReader - pos
              /\ tr'[r].unsafeReader <= n
              /\ \A k \in new :
                   /\ log'[r][k].idx = pos + (k - Len(log[r]))
                   /\ k < Len(log'[r]) => log'[r][k].verdict # "yield"
              /\ IF ret'[r].err = "nil"
                 THEN /\ new # {}
                      /\ log'[r][Len(log'[r])].verdict = "yield"
                      /\ ret'[r].h = log'[r][Len(log'[r])].h
                 ELSE /\ ret'[r].err = host[r].end
                      /\ tr'[r].unsafeReader = n
                      /\ \A k \in new : log'[r][k].verdict # "yield"
              /\ ret[r].err \notin {"nil", "none"} => (log' = log /\ ret' = ret)
    ]_vars

\* one call of Next consumed a special file, dropped it, and returned the
\* entry after it
NextTerminatesWitness ==
  /\ lastOp = [op |-> "Next", r |-> 1, arg |-> 0]
  /\ Len(log[1]) = 2
  /\ log[1][1].verdict = "special"
  /\ log[1][2].verdict = "yield"
  /\ ret[1] = [h |-> log[1][2].h, err |-> "nil"]
  /\ tr[1].unsafeReader = 2

====
